---- MODULE Spec2Model ----
(***************************************************************************)
(* RoadSense: the risk scoring and classification engine of the client     *)
(* (lib/safety-utils), the dashboard page with its view state and the      *)
(* components that consume the engine, and the routes of the server with   *)
(* their storage and the import script.                                    *)
(*                                                                         *)
(* Conventions of the translation                                          *)
(*  - a JavaScript string is the sequence of its code units, a printable   *)
(*    ASCII character as itself and any other code unit as "U+" and its    *)
(*    four hexadecimal digits;                                             *)
(*  - a nullable column is Null (the empty tuple) or Some(v) = <<v>>;      *)
(*  - the optional parameter allScores is Null when the caller omits it    *)
(*    and Some(list) when the caller passes a list (possibly empty);       *)
(*  - a percentile is a multiple of 1/100 for an integer percentile rank   *)
(*    and integer scores, and is carried as that number of hundredths      *)
(*    (17.5 is 1750); every comparison against it scales the other side;   *)
(*  - a number with a fraction is its sign, its decimal digits and the     *)
(*    place of the point (28.61 is Float(1, <<2, 8, 6, 1>>, 2));           *)
(*  - store is the accidents table as the sequence of its rows, call the   *)
(*    call of bulkCreateAccidents that waits for an INSERT (Null when      *)
(*    there is none), and view the React state of the Dashboard page       *)
(*    (Null where no page is rendered).                                    *)
(***************************************************************************)
EXTENDS Integers, Sequences, FiniteSets, TLC

VARIABLES accidents, others, allScores, percentile, hour, dominantCause,
          store, view, call, pc, ret

vars == <<accidents, others, allScores, percentile, hour, dominantCause,
          store, view, call, pc, ret>>

(***************************************************************************)
(* Bounds of the model.                                                    *)
(***************************************************************************)
MaxLen == 3

MaxPop == 2

MaxPairLen == 2

MaxScores == 4

(***************************************************************************)
(* Nullable values and strings.                                            *)
(***************************************************************************)
Null == <<>>

Some(v) == <<v>>

(***************************************************************************)
(* Code units.  A character of a JavaScript string is one UTF-16 code unit;*)
(* a printable ASCII character is written as itself (the grave accent,     *)
(* which a TLA+ string cannot hold, is "U+0060"), tab, line feed, form     *)
(* feed and carriage return as "\t", "\n", "\f" and "\r", and every other  *)
(* code unit by its code point: "U+000B" is the vertical tab, "U+00C9" the *)
(* letter E with acute, "U+212A" the Kelvin sign.  CodeUnits holds the     *)
(* code units of the model in ascending order: entry i is the code unit    *)
(* i - 1 up to U+00FF, and the code units above U+00FF that the white      *)
(* space and the case mappings of the program single out follow.           *)
(***************************************************************************)
CodeUnits ==
  <<
    "U+0000", "U+0001", "U+0002", "U+0003", "U+0004", "U+0005", "U+0006",
    "U+0007", "U+0008", "\t", "\n", "U+000B", "\f", "\r", "U+000E",
    "U+000F", "U+0010", "U+0011", "U+0012", "U+0013", "U+0014", "U+0015",
    "U+0016", "U+0017", "U+0018", "U+0019", "U+001A", "U+001B", "U+001C",
    "U+001D", "U+001E", "U+001F", " ", "!", "\"", "#", "$", "%", "&", "'",
    "(", ")", "*", "+", ",", "-", ".", "/", "0", "1", "2", "3", "4", "5",
    "6", "7", "8", "9", ":", ";", "<", "=", ">", "?", "@", "A", "B", "C",
    "D", "E", "F", "G", "H", "I", "J", "K", "L", "M", "N", "O", "P", "Q",
    "R", "S", "T", "U", "V", "W", "X", "Y", "Z", "[", "\\", "]", "^", "_",
    "U+0060", "a", "b", "c", "d", "e", "f", "g", "h", "i", "j", "k", "l",
    "m", "n", "o", "p", "q", "r", "s", "t", "u", "v", "w", "x", "y", "z",
    "{", "|", "}", "~", "U+007F", "U+0080", "U+0081", "U+0082", "U+0083",
    "U+0084", "U+0085", "U+0086", "U+0087", "U+0088", "U+0089", "U+008A",
    "U+008B", "U+008C", "U+008D", "U+008E", "U+008F", "U+0090", "U+0091",
    "U+0092", "U+0093", "U+0094", "U+0095", "U+0096", "U+0097", "U+0098",
    "U+0099", "U+009A", "U+009B", "U+009C", "U+009D", "U+009E", "U+009F",
    "U+00A0", "U+00A1", "U+00A2", "U+00A3", "U+00A4", "U+00A5", "U+00A6",
    "U+00A7", "U+00A8", "U+00A9", "U+00AA", "U+00AB", "U+00AC", "U+00AD",
    "U+00AE", "U+00AF", "U+00B0", "U+00B1", "U+00B2", "U+00B3", "U+00B4",
    "U+00B5", "U+00B6", "U+00B7", "U+00B8", "U+00B9", "U+00BA", "U+00BB",
    "U+00BC", "U+00BD", "U+00BE", "U+00BF", "U+00C0", "U+00C1", "U+00C2",
    "U+00C3", "U+00C4", "U+00C5", "U+00C6", "U+00C7", "U+00C8", "U+00C9",
    "U+00CA", "U+00CB", "U+00CC", "U+00CD", "U+00CE", "U+00CF", "U+00D0",
    "U+00D1", "U+00D2", "U+00D3", "U+00D4", "U+00D5", "U+00D6", "U+00D7",
    "U+00D8", "U+00D9", "U+00DA", "U+00DB", "U+00DC", "U+00DD", "U+00DE",
    "U+00DF", "U+00E0", "U+00E1", "U+00E2", "U+00E3", "U+00E4", "U+00E5",
    "U+00E6", "U+00E7", "U+00E8", "U+00E9", "U+00EA", "U+00EB", "U+00EC",
    "U+00ED", "U+00EE", "U+00EF", "U+00F0", "U+00F1", "U+00F2", "U+00F3",
    "U+00F4", "U+00F5", "U+00F6", "U+00F7", "U+00F8", "U+00F9", "U+00FA",
    "U+00FB", "U+00FC", "U+00FD", "U+00FE", "U+00FF", "U+0130", "U+0131",
    "U+0307", "U+1680", "U+2000", "U+2001", "U+2002", "U+2003", "U+2004",
    "U+2005", "U+2006", "U+2007", "U+2008", "U+2009", "U+200A", "U+2028",
    "U+2029", "U+202F", "U+205F", "U+212A", "U+212B", "U+3000", "U+FEFF" >>

CodeUnitSet == {CodeUnits[i] : i \in 1..Len(CodeUnits)}

\* Code units whose lower case is one other code unit: A-Z, the Latin-1
\* capitals, the Kelvin sign and the Angstrom sign.
UpperChars ==
  <<
    "A", "B", "C", "D", "E", "F", "G", "H", "I", "J", "K", "L", "M", "N",
    "O", "P", "Q", "R", "S", "T", "U", "V", "W", "X", "Y", "Z", "U+00C0",
    "U+00C1", "U+00C2", "U+00C3", "U+00C4", "U+00C5", "U+00C6", "U+00C7",
    "U+00C8", "U+00C9", "U+00CA", "U+00CB", "U+00CC", "U+00CD", "U+00CE",
    "U+00CF", "U+00D0", "U+00D1", "U+00D2", "U+00D3", "U+00D4", "U+00D5",
    "U+00D6", "U+00D8", "U+00D9", "U+00DA", "U+00DB", "U+00DC", "U+00DD",
    "U+00DE", "U+212A", "U+212B" >>

LowerChars ==
  <<
    "a", "b", "c", "d", "e", "f", "g", "h", "i", "j", "k", "l", "m", "n",
    "o", "p", "q", "r", "s", "t", "u", "v", "w", "x", "y", "z", "U+00E0",
    "U+00E1", "U+00E2", "U+00E3", "U+00E4", "U+00E5", "U+00E6", "U+00E7",
    "U+00E8", "U+00E9", "U+00EA", "U+00EB", "U+00EC", "U+00ED", "U+00EE",
    "U+00EF", "U+00F0", "U+00F1", "U+00F2", "U+00F3", "U+00F4", "U+00F5",
    "U+00F6", "U+00F8", "U+00F9", "U+00FA", "U+00FB", "U+00FC", "U+00FD",
    "U+00FE", "k", "U+00E5" >>

\* The lower-case code unit of each of them.
LowerOf ==
  [c \in {UpperChars[i] : i \in 1..Len(UpperChars)} |->
     LowerChars[CHOOSE i \in 1..Len(UpperChars) : UpperChars[i] = c]]

\* String.prototype.toLowerCase on one code unit: the code units it becomes.
\* The capital I with dot above (U+0130) becomes two, 'i' and the combining
\* dot above (U+0307).
LowerChar(c) ==
  IF c \in DOMAIN LowerOf THEN <<LowerOf[c]>>
  ELSE IF c = "U+0130" THEN <<"i", "U+0307">>
  ELSE CASE c \in CodeUnitSet -> <<c>>

\* String.prototype.toLowerCase.
RECURSIVE toLowerCase(_)
toLowerCase(s) ==
  IF s = <<>> THEN <<>> ELSE LowerChar(Head(s)) \o toLowerCase(Tail(s))

\* WhiteSpace and LineTerminator of ECMAScript, which parseInt, parseFloat
\* and String.prototype.trim skip.
WhiteSpace ==
  { "\t", "\n", "U+000B", "\f", "\r", " ", "U+00A0", "U+1680", "U+2000",
    "U+2001", "U+2002", "U+2003", "U+2004", "U+2005", "U+2006", "U+2007",
    "U+2008", "U+2009", "U+200A", "U+2028", "U+2029", "U+202F", "U+205F",
    "U+3000", "U+FEFF" }

\* `x || 0` on a nullable integer column: null, undefined and 0 give 0.
OrZero(x) == IF x = Null THEN 0 ELSE x[1]

\* `x || ''` on a nullable text column: null and '' give ''.
OrEmpty(x) == IF x = Null THEN <<>> ELSE x[1]

\* Every list over S of length at most n.
ListsUpTo(S, n) == UNION {[1..k -> S] : k \in 0..n}

(***************************************************************************)
(* Accident: the columns of the accidents table that the engine reads.     *)
(***************************************************************************)
Accident(area, fatalities, injuries, personsInvolved, severity, causePrimary) ==
  [area |-> area, fatalities |-> fatalities, injuries |-> injuries,
   personsInvolved |-> personsInvolved, severity |-> severity,
   causePrimary |-> causePrimary]

STR_fatal == <<"f","a","t","a","l">>

STR_severe == <<"s","e","v","e","r","e">>

STR_moderate == <<"m","o","d","e","r","a","t","e">>

STR_Unknown == <<"U","n","k","n","o","w","n">>

(***************************************************************************)
(* calculateSeverityScore                                                  *)
(***************************************************************************)
\* Variant: the label 'fatal' earns no classification points.
SeverityPoints_severeOnly(accident) ==
  LET fatalities == OrZero(accident.fatalities)
      severity == toLowerCase(OrEmpty(accident.severity))
  IN  fatalities * 10
      + (IF severity = STR_severe THEN 5 ELSE 0)
      + (IF severity = STR_moderate THEN 2 ELSE 0)

\* Variant: a record with fatalities earns a flat 10 points.
SeverityPoints_flatFatality(accident) ==
  LET fatalities == OrZero(accident.fatalities)
      severity == toLowerCase(OrEmpty(accident.severity))
  IN  (IF fatalities > 0 THEN 10 ELSE 0)
      + (IF severity = STR_severe \/ severity = STR_fatal THEN 5 ELSE 0)
      + (IF severity = STR_moderate THEN 2 ELSE 0)

\* Variant: the earlier 100/20/1 weighting over fatalities and injuries.
SeverityPoints_legacy(accident) ==
  LET fatalities == OrZero(accident.fatalities)
      injuries == OrZero(accident.injuries)
  IN  fatalities * 100 + injuries * 20
      + (IF fatalities = 0 /\ injuries = 0 THEN 1 ELSE 0)

\* The body of the forEach callback: what one record adds to the score.
SeverityPoints(accident) ==
  LET fatalities == OrZero(accident.fatalities)
      severity == toLowerCase(OrEmpty(accident.severity))
  IN  fatalities * 10
      + (IF severity = STR_severe \/ severity = STR_fatal THEN 5 ELSE 0)
      + (IF severity = STR_moderate THEN 2 ELSE 0)

RECURSIVE ScoreLoop(_, _, _)
\* The forEach loop: records i..Len visited in order, score accumulated.
ScoreLoop(list, i, score) ==
  IF i > Len(list) THEN score
  ELSE ScoreLoop(list, i + 1, score + SeverityPoints(list[i]))

calculateSeverityScore(list) == ScoreLoop(list, 1, 0)

(***************************************************************************)
(* calculatePercentile                                                     *)
(***************************************************************************)
RECURSIVE InsertAscending(_, _)
\* x placed into an ascending list, after the elements not greater than it.
InsertAscending(sorted, x) ==
  IF sorted = <<>> THEN <<x>>
  ELSE IF x < Head(sorted) THEN <<x>> \o sorted
  ELSE <<Head(sorted)>> \o InsertAscending(Tail(sorted), x)

RECURSIVE SortAscending(_)
\* [...scores].sort((a, b) => a - b): a sorted copy, the argument untouched.
SortAscending(scores) ==
  IF scores = <<>> THEN <<>>
  ELSE InsertAscending(SortAscending(SubSeq(scores, 1, Len(scores) - 1)),
                       scores[Len(scores)])

\* Variant: the order statistics are read from the list as passed.
calculatePercentile_unsorted(scores, p) ==
  IF Len(scores) = 0 THEN 0
  ELSE
    LET sorted == scores
        index100 == p * (Len(sorted) - 1)
        lower == index100 \div 100
        upper == IF index100 % 100 = 0 THEN lower ELSE lower + 1
        weight100 == index100 - 100 * lower
    IN  IF lower = upper THEN 100 * sorted[lower + 1]
        ELSE sorted[lower + 1] * (100 - weight100) + sorted[upper + 1] * weight100

\* The percentile in hundredths.  index100 is 100 x index, weight100 is
\* 100 x weight; arrays are 0-based in the source and 1-based here.
calculatePercentile(scores, p) ==
  IF Len(scores) = 0 THEN 0
  ELSE
    LET sorted == SortAscending(scores)
        index100 == p * (Len(sorted) - 1)
        lower == index100 \div 100
        upper == IF index100 % 100 = 0 THEN lower ELSE lower + 1
        weight100 == index100 - 100 * lower
    IN  IF lower = upper THEN 100 * sorted[lower + 1]
        ELSE sorted[lower + 1] * (100 - weight100) + sorted[upper + 1] * weight100

(***************************************************************************)
(* calculateSafetyLevelFromAccidents                                       *)
(***************************************************************************)
\* Variant: the high-risk cut is exclusive.
AbsoluteThresholds_strict(score) ==
  IF score > 50 THEN "high-risk"
  ELSE IF score >= 20 THEN "moderate"
  ELSE "safe"

\* Variant: the two lower labels are exchanged.
AbsoluteThresholds_swapped(score) ==
  IF score >= 50 THEN "high-risk"
  ELSE IF score >= 20 THEN "safe"
  ELSE "moderate"

\* The simple thresholds, used when allScores is missing or empty.
AbsoluteThresholds(score) ==
  IF score >= 50 THEN "high-risk"
  ELSE IF score >= 20 THEN "moderate"
  ELSE "safe"

\* Variant: the 75th percentile cut is exclusive.
PercentileThresholds_strict(score, scores) ==
  LET percentile75 == calculatePercentile(scores, 75)
      percentile25 == calculatePercentile(scores, 25)
  IN  IF 100 * score > percentile75 THEN "high-risk"
      ELSE IF 100 * score >= percentile25 THEN "moderate"
      ELSE "safe"

\* The percentile thresholds over a non-empty allScores.
PercentileThresholds(score, scores) ==
  LET percentile75 == calculatePercentile(scores, 75)
      percentile25 == calculatePercentile(scores, 25)
  IN  IF 100 * score >= percentile75 THEN "high-risk"
      ELSE IF 100 * score >= percentile25 THEN "moderate"
      ELSE "safe"

\* Variant: no early return for an empty record list.
calculateSafetyLevelFromAccidents_noEmptyGuard(list, scoresArg) ==
  LET score == calculateSeverityScore(list)
  IN  IF scoresArg = Null \/ Len(scoresArg[1]) = 0
        THEN AbsoluteThresholds(score)
        ELSE PercentileThresholds(score, scoresArg[1])

\* Variant: a passed population is ignored.
calculateSafetyLevelFromAccidents_absoluteOnly(list, scoresArg) ==
  IF Len(list) = 0 THEN "safe"
  ELSE AbsoluteThresholds(calculateSeverityScore(list))

\* scoresArg is Null when the caller omits allScores, Some(list) otherwise.
calculateSafetyLevelFromAccidents(list, scoresArg) ==
  IF Len(list) = 0 THEN "safe"
  ELSE
    LET score == calculateSeverityScore(list)
    IN  IF scoresArg = Null \/ Len(scoresArg[1]) = 0
          THEN AbsoluteThresholds(score)
          ELSE PercentileThresholds(score, scoresArg[1])

(***************************************************************************)
(* Own-property enumeration order of a plain object: the keys that are     *)
(* canonical array indices first, in ascending numeric order, then the     *)
(* other string keys in the order they were first assigned.  A key that    *)
(* names a property of Object.prototype is handled where the object is     *)
(* written: the area grouping throws on it, and the cause tally of         *)
(* getTopCauses appends to the text of the inherited value.                *)
(***************************************************************************)
DigitChars == <<"0","1","2","3","4","5","6","7","8","9">>

IsDigit(c) == \E i \in 1..10 : DigitChars[i] = c

DigitValue(c) == (CHOOSE i \in 1..10 : DigitChars[i] = c) - 1

\* Numeric order of two canonical decimal strings: shorter first, then by
\* the first digit that differs.
IndexLess(k1, k2) ==
  \/ Len(k1) < Len(k2)
  \/ /\ Len(k1) = Len(k2)
     /\ \E i \in 1..Len(k1) :
          /\ \A j \in 1..(i - 1) : k1[j] = k2[j]
          /\ DigitValue(k1[i]) < DigitValue(k2[i])

\* 2^32 - 2, the largest array index.
STR_MaxArrayIndex == <<"4","2","9","4","9","6","7","2","9","4">>

IsArrayIndex(key) ==
  /\ Len(key) >= 1
  /\ \A i \in 1..Len(key) : IsDigit(key[i])
  /\ (Len(key) > 1 => key[1] # "0")
  /\ ~IndexLess(STR_MaxArrayIndex, key)

RECURSIVE FirstSeen(_)
\* The distinct elements of a list in the order of their first occurrence.
FirstSeen(keys) ==
  IF keys = <<>> THEN <<>>
  ELSE
    LET before == FirstSeen(SubSeq(keys, 1, Len(keys) - 1))
        last == keys[Len(keys)]
    IN  IF \E i \in 1..Len(before) : before[i] = last THEN before
        ELSE Append(before, last)

RECURSIVE InsertIndexKey(_, _)
InsertIndexKey(sorted, key) ==
  IF sorted = <<>> THEN <<key>>
  ELSE IF IndexLess(key, Head(sorted)) THEN <<key>> \o sorted
  ELSE <<Head(sorted)>> \o InsertIndexKey(Tail(sorted), key)

RECURSIVE SortIndexKeys(_)
SortIndexKeys(keys) ==
  IF keys = <<>> THEN <<>>
  ELSE InsertIndexKey(SortIndexKeys(SubSeq(keys, 1, Len(keys) - 1)), keys[Len(keys)])

\* Object.entries order of an object whose keys were assigned in this order.
OwnKeys(assigned) ==
  LET distinct == FirstSeen(assigned)
      IsNotArrayIndex(key) == ~IsArrayIndex(key)
  IN  SortIndexKeys(SelectSeq(distinct, IsArrayIndex))
        \o SelectSeq(distinct, IsNotArrayIndex)

(***************************************************************************)
(* calculateAreaScores and the dashboard's areaAnalytics                   *)
(***************************************************************************)
\* The property names that the object literal `{}` inherits from
\* Object.prototype: `acc[name]` is truthy for them before any assignment.
ObjectPrototypeKeys ==
  {<<"c","o","n","s","t","r","u","c","t","o","r">>,
   <<"t","o","S","t","r","i","n","g">>,
   <<"t","o","L","o","c","a","l","e","S","t","r","i","n","g">>,
   <<"v","a","l","u","e","O","f">>,
   <<"h","a","s","O","w","n","P","r","o","p","e","r","t","y">>,
   <<"i","s","P","r","o","t","o","t","y","p","e","O","f">>,
   <<"p","r","o","p","e","r","t","y","I","s","E","n","u","m","e","r","a","b","l","e">>,
   <<"_","_","p","r","o","t","o","_","_">>,
   <<"_","_","d","e","f","i","n","e","G","e","t","t","e","r","_","_">>,
   <<"_","_","d","e","f","i","n","e","S","e","t","t","e","r","_","_">>,
   <<"_","_","l","o","o","k","u","p","G","e","t","t","e","r","_","_">>,
   <<"_","_","l","o","o","k","u","p","S","e","t","t","e","r","_","_">>}

\* One call of the reduce callback:
\*   if (!acc[accident.area]) { acc[accident.area] = []; }
\*   acc[accident.area].push(accident);
\* Under an inherited name the guard is false and `.push` is not a function.
AddToGroup(acc, accident) ==
  LET area == accident.area
  IN  IF area \in DOMAIN acc.group
        THEN [acc EXCEPT !.group[area] = Append(@, accident)]
      ELSE IF area \in ObjectPrototypeKeys
        THEN [acc EXCEPT !.threw = TRUE]
      ELSE [threw |-> FALSE,
            keys |-> Append(acc.keys, area),
            group |-> (area :> <<accident>>) @@ acc.group]

RECURSIVE GroupLoop(_, _, _)
GroupLoop(list, i, acc) ==
  IF i > Len(list) \/ acc.threw THEN acc
  ELSE GroupLoop(list, i + 1, AddToGroup(acc, list[i]))

\* accidents.reduce(..., {} as Record<string, Accident[]>).  The accumulator
\* holds the keys assigned so far, in assignment order, the array under each
\* key, and whether the callback threw.
areaGroups(list) ==
  GroupLoop(list, 1, [threw |-> FALSE, keys |-> <<>>, group |-> <<>>])

\* areaGroups[area]: the records of one area, in input order.
AreaGroup(list, area) == areaGroups(list).group[area]

\* Object.entries(areaGroups) as [area, records] pairs.
AreaEntries(list) ==
  LET groups == areaGroups(list)
      keys == OwnKeys(groups.keys)
  IN  [i \in 1..Len(keys) |-> <<keys[i], groups.group[keys[i]]>>]

\* An uncaught TypeError leaves the caller without a value.
TypeError == [threw |-> TRUE]

\* areaScores is the Map as its entries in insertion order.
calculateAreaScores(list) ==
  LET entries == AreaEntries(list)
  IN  IF areaGroups(list).threw THEN TypeError
      ELSE [threw |-> FALSE,
            areaScores |->
              [i \in 1..Len(entries) |->
                 <<entries[i][1], calculateSeverityScore(entries[i][2])>>],
            allScores |->
              [i \in 1..Len(entries) |-> calculateSeverityScore(entries[i][2])]]

\* The useMemo of the dashboard: the Map as its entries in insertion order.
\* The reduce is the one of calculateAreaScores and throws where it does.
areaAnalytics(list) ==
  LET entries == AreaEntries(list)
  IN  [i \in 1..Len(entries) |->
         <<entries[i][1],
           [count |-> Len(entries[i][2]),
            safetyLevel |->
              calculateSafetyLevelFromAccidents(entries[i][2], Null)]>>]

(***************************************************************************)
(* getTopCauses and getDominantCause                                       *)
(***************************************************************************)
\* `accident.causePrimary || 'Unknown'`.
CauseOf(accident) ==
  IF accident.causePrimary = Null \/ accident.causePrimary[1] = <<>>
    THEN STR_Unknown
    ELSE accident.causePrimary[1]

\* The value of a `count` property: a JavaScript number or string.
JSNumber(n) == [type |-> "number", value |-> n]

JSString(s) == [type |-> "string", value |-> s]

RECURSIVE causeCounts(_, _)
\* The reduce of getTopCauses: the own properties of the accumulator, which
\* starts as `{}`.  `acc[cause]` on a name that `{}` inherits reads the
\* inherited value, a function (or Object.prototype itself for
\* '__proto__'), which is truthy, so `+ 1` appends '1' to its text; the
\* assignment creates an own property except for '__proto__', whose setter
\* ignores a string.  ECMAScript fixes the text of a built-in function as
\* `function name() { [native code] }` and leaves its white space to the
\* engine: V8 writes it on one line, SpiderMonkey and JavaScriptCore on
\* three ('constructor' holds the function Object).
causeCounts(list, engine) ==
  IF list = <<>> THEN <<>>
  ELSE
    LET acc == causeCounts(SubSeq(list, 1, Len(list) - 1), engine)
        cause == CauseOf(list[Len(list)])
        name == IF cause = <<"c","o","n","s","t","r","u","c","t","o","r">> THEN <<"O","b","j","e","c","t">> ELSE cause
        NativeFunctionText ==
          IF engine = "V8"
            THEN <<"f","u","n","c","t","i","o","n"," ">> \o name
                   \o <<"(",")"," ","{"," ","[","n","a","t","i","v","e"," ","c","o","d","e","]"," ","}">>
          ELSE <<"f","u","n","c","t","i","o","n"," ">> \o name \o <<"(",")"," ","{">> \o <<"\n">>
                 \o <<" "," "," "," ","[","n","a","t","i","v","e"," ","c","o","d","e","]">> \o <<"\n">> \o <<"}">>
        sum == IF cause \in DOMAIN acc
                 THEN IF acc[cause].type = "number"
                        THEN JSNumber(acc[cause].value + 1)
                        ELSE JSString(acc[cause].value \o <<"1">>)
               ELSE IF cause = <<"_","_","p","r","o","t","o","_","_">>
                 THEN JSString(<<"[","o","b","j","e","c","t"," ","O","b","j","e","c","t","]","1">>)
               ELSE IF cause \in ObjectPrototypeKeys
                 THEN JSString(NativeFunctionText \o <<"1">>)
               ELSE JSNumber(1)
    IN  IF cause = <<"_","_","p","r","o","t","o","_","_">> THEN acc
        ELSE [c \in DOMAIN acc \cup {cause} |-> IF c = cause THEN sum ELSE acc[c]]

RECURSIVE InsertByCount(_, _)
\* Stable insertion for sort((a, b) => b.count - a.count): an entry goes
\* after every entry whose count is not smaller.
InsertByCount(sorted, entry) ==
  IF sorted = <<>> THEN <<entry>>
  ELSE IF entry.count > Head(sorted).count THEN <<entry>> \o sorted
  ELSE <<Head(sorted)>> \o InsertByCount(Tail(sorted), entry)

RECURSIVE SortByCount(_)
SortByCount(entries) ==
  IF entries = <<>> THEN <<>>
  ELSE InsertByCount(SortByCount(SubSeq(entries, 1, Len(entries) - 1)),
                     entries[Len(entries)])

TopN == 5

\* The arrays getTopCauses can return.  The comparator `b.count - a.count`
\* is NaN, hence 0, when either count is a string.  While it is a consistent
\* comparator (every count a number, or the numbers among the counts all
\* equal) the stable sort has one result; otherwise the order of the sorted
\* array is left to the engine, and every order is an outcome.
getTopCauses(list) ==
  LET present == SelectSeq([i \in 1..Len(list) |-> CauseOf(list[i])],
                           LAMBDA cause : cause # <<"_","_","p","r","o","t","o","_","_">>)
      keys == OwnKeys(present)
      n == Len(keys)
      Top(sorted) == SubSeq(sorted, 1, IF n < TopN THEN n ELSE TopN)
      Sorted(engine) ==
        LET causeCount == causeCounts(list, engine)
            entries == [i \in 1..n |->
                          [cause |-> keys[i], count |-> causeCount[keys[i]]]]
            numbers == {causeCount[keys[i]].value :
                          i \in {k \in 1..n : causeCount[keys[k]].type = "number"}}
        IN  IF \A i \in 1..n : entries[i].count.type = "number"
              THEN LET byCount ==
                         SortByCount([i \in 1..n |->
                                        [cause |-> entries[i].cause,
                                         count |-> entries[i].count.value]])
                   IN  {[i \in 1..n |-> [cause |-> byCount[i].cause,
                                         count |-> JSNumber(byCount[i].count)]]}
            ELSE IF Cardinality(numbers) <= 1 THEN {entries}
            ELSE {[i \in 1..n |-> entries[order[i]]] :
                    order \in Permutations(1..n)}
  IN  {Top(sorted) : sorted \in Sorted("V8") \cup Sorted("SpiderMonkey")}

\* The values getDominantCause can return.
getDominantCause(list) ==
  {IF Len(causes) > 0 THEN causes[1].cause ELSE STR_Unknown :
     causes \in getTopCauses(list)}

(***************************************************************************)
(* Inputs.  Each specification draws its arguments from one of these sets. *)
(***************************************************************************)
STR_Fatal == <<"F","a","t","a","l">>

STR_SEVERE == <<"S","E","V","E","R","E">>

STR_Minor == <<"M","i","n","o","r">>

STR_Speeding == <<"S","p","e","e","d","i","n","g">>

STR_Fog == <<"F","o","g">>

AREA_Rohini == <<"R","o","h","i","n","i">>

AREA_Dwarka == <<"D","w","a","r","k","a">>

AREA_7 == <<"7">>

FatalityValues == {Null, Some(0), Some(1), Some(2)}

SeverityValues ==
  {Null, Some(<<>>), Some(STR_Fatal), Some(STR_SEVERE), Some(STR_moderate),
   Some(STR_Minor)}

\* Scoring: every combination of a fatality count and a severity label.
ScoreRecords ==
  {Accident(AREA_Rohini, f, Null, Null, s, Null) :
     f \in FatalityValues, s \in SeverityValues}

\* Classification: records of 15, 2, 0, 25, 22 and 20 points, so that lists
\* of up to three reach 17, 19, 20, 49 and 50.
ClassRecords ==
  {Accident(AREA_Rohini, Some(1), Null, Null, Some(STR_Fatal), Some(STR_Speeding)),
   Accident(AREA_Rohini, Some(0), Null, Null, Some(STR_moderate), Some(STR_Fog)),
   Accident(AREA_Rohini, Some(0), Null, Null, Some(STR_Minor), Null),
   Accident(AREA_Rohini, Some(2), Null, Null, Some(STR_SEVERE), Some(STR_Speeding)),
   Accident(AREA_Rohini, Some(2), Null, Null, Some(STR_moderate), Some(<<>>)),
   Accident(AREA_Rohini, Some(2), Null, Null, Null, Some(STR_Fog))}

PopScores == {0, 17, 25, 50}

\* The allScores argument: omitted, or a list of up to MaxPop scores.
Populations == {Null} \cup {Some(scores) : scores \in ListsUpTo(PopScores, MaxPop)}

\* Two collections compared under one population: the second differs from
\* the first in injuries, persons involved and the case of the labels.
PairRecordsA ==
  {Accident(AREA_Rohini, Some(0), Null, Some(1), Some(STR_Minor), Null),
   Accident(AREA_Rohini, Some(0), Null, Some(1), Some(STR_moderate), Null),
   Accident(AREA_Rohini, Some(1), Null, Some(1), Some(STR_Fatal), Null),
   Accident(AREA_Rohini, Some(2), Null, Some(1), Some(STR_SEVERE), Null)}

PairRecordsB ==
  {Accident(AREA_Rohini, Some(0), Some(3), Some(4), Some(<<"m","i","n","o","r">>), Null),
   Accident(AREA_Rohini, Null, Some(1), Some(2), Null, Null),
   Accident(AREA_Rohini, Some(0), Some(3), Some(4), Some(<<"M","o","d","e","r","a","t","e">>), Null),
   Accident(AREA_Rohini, Some(1), Some(2), Some(5), Some(<<"F","A","T","A","L">>), Null),
   Accident(AREA_Rohini, Some(2), Some(0), Some(2), Some(STR_severe), Null)}

PercentileScores == {5, 10, 20, 30, 40}

\* The ranks whose hundredth is exact in binary floating point.
PercentileRanks == {0, 25, 50, 75, 100}

\* The dashboard: three areas, one of them an integer-like key.
DashRecords ==
  {Accident(a, fs[1], Null, Null, fs[2], Null) :
     a \in {AREA_Rohini, AREA_Dwarka, AREA_7},
     fs \in {<<Some(0), Some(STR_Minor)>>, <<Some(1), Some(STR_Fatal)>>,
             <<Some(2), Some(STR_SEVERE)>>}}

(***************************************************************************)
(* Calls.  pc is "ready" before the call and names the call afterwards;    *)
(* ret holds what the call returned.                                       *)
(***************************************************************************)
CallSeverityScore ==
  /\ pc = "ready"
  /\ pc' = "scored"
  /\ ret' = [score |-> calculateSeverityScore(accidents)]
  /\ UNCHANGED <<accidents, others, allScores, percentile, hour,
               dominantCause, store, view, call>>

CallSafetyLevel ==
  /\ pc = "ready"
  /\ pc' = "classified"
  /\ ret' = [level |-> calculateSafetyLevelFromAccidents(accidents, allScores)]
  /\ UNCHANGED <<accidents, others, allScores, percentile, hour,
               dominantCause, store, view, call>>

CallTopCauses ==
  /\ pc = "ready"
  /\ pc' = "topCauses"
  /\ \E causes \in getTopCauses(accidents) : ret' = [causes |-> causes]
  /\ UNCHANGED <<accidents, others, allScores, percentile, hour,
               dominantCause, store, view, call>>

CallDominantCause ==
  /\ pc = "ready"
  /\ pc' = "dominantCause"
  /\ \E cause \in getDominantCause(accidents) : ret' = [cause |-> cause]
  /\ UNCHANGED <<accidents, others, allScores, percentile, hour,
               dominantCause, store, view, call>>

\* Both collections scored and classified with the same allScores argument.
CallSafetyLevelPair ==
  /\ pc = "ready"
  /\ pc' = "compared"
  /\ ret' = [scoreA |-> calculateSeverityScore(accidents),
             scoreB |-> calculateSeverityScore(others),
             levelA |-> calculateSafetyLevelFromAccidents(accidents, allScores),
             levelB |-> calculateSafetyLevelFromAccidents(others, allScores)]
  /\ UNCHANGED <<accidents, others, allScores, percentile, hour,
               dominantCause, store, view, call>>

CallPercentile ==
  /\ pc = "ready"
  /\ pc' = "percentile"
  /\ ret' = [value100 |-> calculatePercentile(allScores[1], percentile)]
  /\ UNCHANGED <<accidents, others, allScores, percentile, hour,
               dominantCause, store, view, call>>

CallAreaScores ==
  /\ pc = "ready"
  /\ pc' = "areaScores"
  /\ ret' = calculateAreaScores(accidents)
  /\ UNCHANGED <<accidents, others, allScores, percentile, hour,
               dominantCause, store, view, call>>

\* The dashboard renders with the fetched records: areaAnalytics is derived.
RenderDashboard ==
  /\ pc = "ready"
  /\ pc' = "rendered"
  /\ ret' = IF areaGroups(accidents).threw THEN TypeError
             ELSE [threw |-> FALSE, areaAnalytics |-> areaAnalytics(accidents)]
  /\ UNCHANGED <<accidents, others, allScores, percentile, hour,
               dominantCause, store, view, call>>

(***************************************************************************)
(* Spec: calculateSeverityScore over every list of scoring records.        *)
(***************************************************************************)
Init ==
  /\ accidents \in ListsUpTo(ScoreRecords, MaxLen)
  /\ others = <<>>
  /\ allScores = Null
  /\ percentile = 0
  /\ call = Null
  /\ pc = "ready"
  /\ hour = 0
  /\ dominantCause = <<>>
  /\ store = <<>>
  /\ view = Null
  /\ ret = Null

Next == CallSeverityScore

Spec == Init /\ [][Next]_vars

(***************************************************************************)
(* ClassifySpec: the engine's calls on one record list and one allScores   *)
(* argument.                                                               *)
(***************************************************************************)
ClassifyInit ==
  /\ accidents \in ListsUpTo(ClassRecords, MaxLen)
  /\ others = <<>>
  /\ allScores \in Populations
  /\ percentile = 0
  /\ call = Null
  /\ pc = "ready"
  /\ hour = 0
  /\ dominantCause = <<>>
  /\ store = <<>>
  /\ view = Null
  /\ ret = Null

ClassifySpec ==
  ClassifyInit /\ [][CallSeverityScore \/ CallSafetyLevel \/ CallTopCauses \/
                     CallDominantCause]_vars

(***************************************************************************)
(* PairSpec: two record collections classified under the same allScores.   *)
(***************************************************************************)
PairInit ==
  /\ accidents \in ListsUpTo(PairRecordsA, MaxPairLen)
  /\ others \in ListsUpTo(PairRecordsB, MaxPairLen)
  /\ allScores \in Populations
  /\ percentile = 0
  /\ call = Null
  /\ pc = "ready"
  /\ hour = 0
  /\ dominantCause = <<>>
  /\ store = <<>>
  /\ view = Null
  /\ ret = Null

PairSpec == PairInit /\ [][CallSafetyLevelPair]_vars

(***************************************************************************)
(* PercentileSpec: calculatePercentile on a list of scores and a rank.     *)
(***************************************************************************)
PercentileInit ==
  /\ accidents = <<>>
  /\ others = <<>>
  /\ allScores \in {Some(scores) : scores \in ListsUpTo(PercentileScores, MaxScores)}
  /\ percentile \in PercentileRanks
  /\ call = Null
  /\ pc = "ready"
  /\ hour = 0
  /\ dominantCause = <<>>
  /\ store = <<>>
  /\ view = Null
  /\ ret = Null

PercentileSpec == PercentileInit /\ [][CallPercentile]_vars

(***************************************************************************)
(* DashboardSpec: the fetched record set, the dashboard's areaAnalytics    *)
(* and calculateAreaScores over the same records.                          *)
(***************************************************************************)
DashboardInit ==
  /\ accidents \in ListsUpTo(DashRecords, MaxLen)
  /\ others = <<>>
  /\ allScores = Null
  /\ percentile = 0
  /\ call = Null
  /\ pc = "ready"
  /\ hour = 0
  /\ dominantCause = <<>>
  /\ store = <<>>
  /\ view = Null
  /\ ret = Null

DashboardSpec == DashboardInit /\ [][RenderDashboard \/ CallAreaScores]_vars

(***************************************************************************)
(* The hour of a record: String.prototype.includes and split, parseInt,    *)
(* getHourlyDistribution and predictSafetyForHour.                         *)
(* A JavaScript number that may be NaN is NaN or Num(n).                   *)
(***************************************************************************)
NaN == <<>>

Num(n) == <<n>>

\* String.prototype.includes(sub).
includes(s, sub) ==
  \E i \in 1..(Len(s) - Len(sub) + 1) : SubSeq(s, i, i + Len(sub) - 1) = sub

RECURSIVE FirstPart(_, _)
\* s.split(sep)[0] for a one-character separator: the text before the
\* first separator, or all of s when there is none.
FirstPart(s, sep) ==
  IF s = <<>> \/ Head(s) = sep THEN <<>>
  ELSE <<Head(s)>> \o FirstPart(Tail(s), sep)

RECURSIVE TrimStart(_)
TrimStart(s) ==
  IF s # <<>> /\ Head(s) \in WhiteSpace THEN TrimStart(Tail(s)) ELSE s

RECURSIVE DigitsValue(_, _, _)
\* The value of the longest prefix of s made of digits of the radix,
\* continuing from the value acc; NaN when no digit has been read.
DigitsValue(s, radix, acc) ==
  LET HexLetters == <<"a","b","c","d","e","f">>
      HexCapitals == <<"A","B","C","D","E","F">>
      IsHexLetter(c, i) == c = HexLetters[i] \/ c = HexCapitals[i]
      IsHexDigit(c) == IsDigit(c) \/ \E i \in 1..6 : IsHexLetter(c, i)
      HexValue(c) ==
        IF IsDigit(c) THEN DigitValue(c)
        ELSE 9 + (CHOOSE i \in 1..6 : IsHexLetter(c, i))
      IsRadixDigit(c) == IF radix = 16 THEN IsHexDigit(c) ELSE IsDigit(c)
  IN  IF s = <<>> \/ ~IsRadixDigit(Head(s)) THEN acc
      ELSE DigitsValue(Tail(s), radix,
                       Num(radix * (IF acc = NaN THEN 0 ELSE acc[1])
                             + HexValue(Head(s))))

\* parseInt(string) without a radix: leading white space is skipped, a
\* sign is read, a 0x or 0X prefix selects radix 16, the longest prefix of
\* digits is the value, and the result is NaN when there is no digit.
parseInt(string) ==
  LET trimmed == TrimStart(string)
      signed == trimmed # <<>> /\ Head(trimmed) \in {"+", "-"}
      sign == IF trimmed # <<>> /\ Head(trimmed) = "-" THEN -1 ELSE 1
      unsigned == IF signed THEN Tail(trimmed) ELSE trimmed
      hex == Len(unsigned) >= 2 /\ unsigned[1] = "0" /\ unsigned[2] \in {"x", "X"}
      magnitude == IF hex THEN DigitsValue(Tail(Tail(unsigned)), 16, NaN)
                   ELSE DigitsValue(unsigned, 10, NaN)
  IN  IF magnitude = NaN THEN NaN ELSE Num(sign * magnitude[1])

\* Hour of a record as getHourlyDistribution computes it, with `hour += 12`
\* applied at noon as well.
HistogramHour_noNoonGuard(time) ==
  IF includes(time, <<":">>)
    THEN LET parsed == parseInt(FirstPart(time, ":"))
         IN  IF includes(toLowerCase(time), <<"p","m">>)
               THEN IF parsed = NaN THEN NaN ELSE Num(parsed[1] + 12)
             ELSE IF includes(toLowerCase(time), <<"a","m">>) /\ parsed = Num(12)
               THEN Num(0)
             ELSE parsed
    ELSE Num(0)

\* Hour of a record as getHourlyDistribution computes it.
HistogramHour(time) ==
  IF includes(time, <<":">>)
    THEN LET parsed == parseInt(FirstPart(time, ":"))
         IN  IF includes(toLowerCase(time), <<"p","m">>) /\ parsed # Num(12)
               THEN IF parsed = NaN THEN NaN ELSE Num(parsed[1] + 12)
             ELSE IF includes(toLowerCase(time), <<"a","m">>) /\ parsed = Num(12)
               THEN Num(0)
             ELSE parsed
    ELSE Num(0)

\* The hour of predictSafetyForHour without the branch that turns 12 AM
\* into hour 0.
FilterHour_noMidnight(time) ==
  IF includes(time, <<":">>)
    THEN LET parsed == parseInt(FirstPart(time, ":"))
         IN  IF includes(toLowerCase(time), <<"p","m">>) /\ parsed # Num(12)
               THEN IF parsed = NaN THEN NaN ELSE Num(parsed[1] + 12)
             ELSE parsed
    ELSE Num(0)

\* Hour of a record as the filter of predictSafetyForHour computes it.
FilterHour(time) ==
  IF includes(time, <<":">>)
    THEN LET parsed == parseInt(FirstPart(time, ":"))
         IN  IF includes(toLowerCase(time), <<"p","m">>) /\ parsed # Num(12)
               THEN IF parsed = NaN THEN NaN ELSE Num(parsed[1] + 12)
             ELSE IF includes(toLowerCase(time), <<"a","m">>) /\ parsed = Num(12)
               THEN Num(0)
             ELSE parsed
    ELSE Num(0)

\* One call of the forEach callback with the bucket forced into range.
CountHour_clamped(hourCounts, accident) ==
  LET h == HistogramHour(accident.time)
      bucket == IF h = NaN \/ h[1] < 0 THEN 0
                ELSE IF h[1] >= 24 THEN 23 ELSE h[1]
  IN  [hourCounts EXCEPT ![bucket + 1] = @ + 1]

\* One call of the forEach callback; hourCounts[h] is element h + 1.
CountHour(hourCounts, accident) ==
  LET h == HistogramHour(accident.time)
      \* `hour >= 0 && hour < 24`: false for NaN.
      IsBucket == h # NaN /\ h[1] >= 0 /\ h[1] < 24
  IN  IF IsBucket THEN [hourCounts EXCEPT ![h[1] + 1] = @ + 1]
      ELSE hourCounts

RECURSIVE HourLoop(_, _, _)
HourLoop(list, i, hourCounts) ==
  IF i > Len(list) THEN hourCounts
  ELSE HourLoop(list, i + 1, CountHour(hourCounts, list[i]))

getHourlyDistribution(list) ==
  LET hourCounts == HourLoop(list, 1, [h \in 1..24 |-> 0])
  IN  [h \in 1..24 |-> [hour |-> h - 1, count |-> hourCounts[h]]]

\* predictSafetyForHour that drops its third argument.
predictSafetyForHour_noPopulation(h, historicalData, scoresArg) ==
  LET AtHour(acc) == FilterHour(acc.time) = Num(h)
  IN  calculateSafetyLevelFromAccidents(SelectSeq(historicalData, AtHour), Null)

predictSafetyForHour(h, historicalData, scoresArg) ==
  LET AtHour(acc) == FilterHour(acc.time) = Num(h)
  IN  calculateSafetyLevelFromAccidents(SelectSeq(historicalData, AtHour), scoresArg)

(***************************************************************************)
(* getCivilianSuggestions and getGovernmentSuggestions.  The advisory      *)
(* lists are data: each is the tuple of its four strings, under the name   *)
(* of the branch that returns it.                                          *)
(***************************************************************************)
\* The lists getCivilianSuggestions returns.
CivilianAdvice ==
  [weather |->
     <<"Check tire tread and wiper blades before driving in rain",
       "Reduce speed by at least 30% and increase following distance",
       "Use fog lights in low visibility, not high beams",
       "Avoid sudden braking or sharp turns on wet roads">>,
   speed |->
     <<"Be aware that this is a high-speed accident zone; adhere strictly to the posted speed limit",
       "Allow extra time for your journey to avoid the temptation to speed",
       "Be cautious of other vehicles making sudden maneuvers",
       "Maintain safe following distance to allow for sudden stops">>,
   attention |->
     <<"Avoid all mobile phone use when approaching this area",
       "Be prepared for sudden stops and lane changes",
       "Before proceeding on a green light, quickly check for cross-traffic that may have run the red light",
       "Stay alert and avoid distractions like eating or adjusting radio">>,
   alcohol |->
     <<"Never drive under the influence of alcohol or drugs",
       "Watch for erratic driving behavior from other vehicles",
       "Consider alternative transportation if you plan to consume alcohol",
       "Report suspected drunk drivers to authorities">>,
   pedestrian |->
     <<"Be extra vigilant for pedestrians, especially near crosswalks",
       "Slow down in areas with high foot traffic",
       "Never assume pedestrians will wait for you to pass",
       "Be especially careful during evening hours when visibility is reduced">>,
   overtaking |->
     <<"Be cautious when overtaking; ensure clear visibility and safe distance",
       "Watch for aggressive drivers attempting risky overtaking maneuvers",
       "Use defensive driving techniques and maintain your lane",
       "Never engage with aggressive or reckless drivers">>,
   default |->
     <<"Drive defensively and stay alert at all times",
       "Maintain safe following distance from other vehicles",
       "Obey all traffic signals and road signs",
       "Be prepared for unexpected situations">>]

\* The lists getGovernmentSuggestions returns.
GovernmentAdvice ==
  [weather |->
     <<"Improve road infrastructure by clearing drainage systems to prevent waterlogging",
       "Repair potholes that become hazardous in rain",
       "Install high-visibility, reflective road markings and signage that perform well in fog and rain",
       "Consider installing weather-responsive traffic management systems">>,
   speed |->
     <<"Install automated speed-enforcement cameras on this stretch",
       "Implement traffic calming measures like speed bumps near intersections or pedestrian zones",
       "Increase the frequency of traffic police patrols with speed guns",
       "Improve signage warning drivers of speed limits and accident history">>,
   attention |->
     <<"Improve traffic signal visibility and timing at this intersection",
       "Install rumble strips on the approach to the intersection to alert drivers",
       "Consider creating a 'no-right-on-red' policy here if not already in place",
       "Deploy red light cameras to enforce traffic signal compliance">>,
   alcohol |->
     <<"Increase sobriety checkpoints and breathalyzer testing in this area",
       "Launch targeted awareness campaigns about drunk driving consequences",
       "Improve public transportation options during peak nightlife hours",
       "Implement stricter penalties for DUI offenses in high-risk zones">>,
   pedestrian |->
     <<"Install or improve pedestrian crosswalks with clear markings",
       "Add pedestrian crossing signals with countdown timers",
       "Implement speed reduction zones near high pedestrian traffic areas",
       "Consider installing pedestrian barriers to prevent jaywalking">>,
   overtaking |->
     <<"Install clear lane markings and no-overtaking zone signage",
       "Increase traffic police presence to deter reckless driving",
       "Consider median barriers to prevent dangerous overtaking",
       "Implement stricter penalties for reckless driving in this zone">>,
   default |->
     <<"Conduct comprehensive traffic safety audit of this area",
       "Improve road lighting and visibility",
       "Increase traffic police presence during peak hours",
       "Install warning signs about accident-prone zone">>]

\* Variant: the speed branch is tested before the weather branch.
getCivilianSuggestions_speedFirst(cause) ==
  LET lower == toLowerCase(cause)
  IN  IF includes(lower, <<"s","p","e","e","d">>)
           \/ includes(lower, <<"o","v","e","r","s","p","e","e","d","i","n","g">>)
        THEN CivilianAdvice.speed
      ELSE IF includes(lower, <<"w","e","a","t","h","e","r">>)
           \/ includes(lower, <<"r","a","i","n">>)
           \/ includes(lower, <<"f","o","g">>)
        THEN CivilianAdvice.weather
      ELSE IF includes(lower, <<"i","n","a","t","t","e","n","t","i","o","n">>)
           \/ includes(lower, <<"d","i","s","t","r","a","c","t">>)
           \/ includes(lower, <<"r","e","d"," ","l","i","g","h","t">>)
           \/ includes(lower, <<"s","i","g","n","a","l">>)
        THEN CivilianAdvice.attention
      ELSE IF includes(lower, <<"a","l","c","o","h","o","l">>)
           \/ includes(lower, <<"d","r","u","n","k">>)
        THEN CivilianAdvice.alcohol
      ELSE IF includes(lower, <<"p","e","d","e","s","t","r","i","a","n">>)
           \/ includes(lower, <<"j","a","y","w","a","l","k","i","n","g">>)
        THEN CivilianAdvice.pedestrian
      ELSE IF includes(lower, <<"o","v","e","r","t","a","k","i","n","g">>)
           \/ includes(lower, <<"r","e","c","k","l","e","s","s">>)
        THEN CivilianAdvice.overtaking
      ELSE CivilianAdvice.default

getCivilianSuggestions(cause) ==
  LET lower == toLowerCase(cause)
  IN  IF includes(lower, <<"w","e","a","t","h","e","r">>)
           \/ includes(lower, <<"r","a","i","n">>)
           \/ includes(lower, <<"f","o","g">>)
        THEN CivilianAdvice.weather
      ELSE IF includes(lower, <<"s","p","e","e","d">>)
           \/ includes(lower, <<"o","v","e","r","s","p","e","e","d","i","n","g">>)
        THEN CivilianAdvice.speed
      ELSE IF includes(lower, <<"i","n","a","t","t","e","n","t","i","o","n">>)
           \/ includes(lower, <<"d","i","s","t","r","a","c","t">>)
           \/ includes(lower, <<"r","e","d"," ","l","i","g","h","t">>)
           \/ includes(lower, <<"s","i","g","n","a","l">>)
        THEN CivilianAdvice.attention
      ELSE IF includes(lower, <<"a","l","c","o","h","o","l">>)
           \/ includes(lower, <<"d","r","u","n","k">>)
        THEN CivilianAdvice.alcohol
      ELSE IF includes(lower, <<"p","e","d","e","s","t","r","i","a","n">>)
           \/ includes(lower, <<"j","a","y","w","a","l","k","i","n","g">>)
        THEN CivilianAdvice.pedestrian
      ELSE IF includes(lower, <<"o","v","e","r","t","a","k","i","n","g">>)
           \/ includes(lower, <<"r","e","c","k","l","e","s","s">>)
        THEN CivilianAdvice.overtaking
      ELSE CivilianAdvice.default

\* getGovernmentSuggestions whose attention branch does not know 'signal'.
getGovernmentSuggestions_noSignal(cause) ==
  LET lower == toLowerCase(cause)
  IN  IF includes(lower, <<"w","e","a","t","h","e","r">>)
           \/ includes(lower, <<"r","a","i","n">>)
           \/ includes(lower, <<"f","o","g">>)
        THEN GovernmentAdvice.weather
      ELSE IF includes(lower, <<"s","p","e","e","d">>)
           \/ includes(lower, <<"o","v","e","r","s","p","e","e","d","i","n","g">>)
        THEN GovernmentAdvice.speed
      ELSE IF includes(lower, <<"i","n","a","t","t","e","n","t","i","o","n">>)
           \/ includes(lower, <<"d","i","s","t","r","a","c","t">>)
           \/ includes(lower, <<"r","e","d"," ","l","i","g","h","t">>)
        THEN GovernmentAdvice.attention
      ELSE IF includes(lower, <<"a","l","c","o","h","o","l">>)
           \/ includes(lower, <<"d","r","u","n","k">>)
        THEN GovernmentAdvice.alcohol
      ELSE IF includes(lower, <<"p","e","d","e","s","t","r","i","a","n">>)
           \/ includes(lower, <<"j","a","y","w","a","l","k","i","n","g">>)
        THEN GovernmentAdvice.pedestrian
      ELSE IF includes(lower, <<"o","v","e","r","t","a","k","i","n","g">>)
           \/ includes(lower, <<"r","e","c","k","l","e","s","s">>)
        THEN GovernmentAdvice.overtaking
      ELSE GovernmentAdvice.default

getGovernmentSuggestions(cause) ==
  LET lower == toLowerCase(cause)
  IN  IF includes(lower, <<"w","e","a","t","h","e","r">>)
           \/ includes(lower, <<"r","a","i","n">>)
           \/ includes(lower, <<"f","o","g">>)
        THEN GovernmentAdvice.weather
      ELSE IF includes(lower, <<"s","p","e","e","d">>)
           \/ includes(lower, <<"o","v","e","r","s","p","e","e","d","i","n","g">>)
        THEN GovernmentAdvice.speed
      ELSE IF includes(lower, <<"i","n","a","t","t","e","n","t","i","o","n">>)
           \/ includes(lower, <<"d","i","s","t","r","a","c","t">>)
           \/ includes(lower, <<"r","e","d"," ","l","i","g","h","t">>)
           \/ includes(lower, <<"s","i","g","n","a","l">>)
        THEN GovernmentAdvice.attention
      ELSE IF includes(lower, <<"a","l","c","o","h","o","l">>)
           \/ includes(lower, <<"d","r","u","n","k">>)
        THEN GovernmentAdvice.alcohol
      ELSE IF includes(lower, <<"p","e","d","e","s","t","r","i","a","n">>)
           \/ includes(lower, <<"j","a","y","w","a","l","k","i","n","g">>)
        THEN GovernmentAdvice.pedestrian
      ELSE IF includes(lower, <<"o","v","e","r","t","a","k","i","n","g">>)
           \/ includes(lower, <<"r","e","c","k","l","e","s","s">>)
        THEN GovernmentAdvice.overtaking
      ELSE GovernmentAdvice.default

(***************************************************************************)
(* Grouping by area, step by step: the reduce of calculateAreaScores and   *)
(* of the dashboard, then the scoring of each group.                       *)
(***************************************************************************)
AREA_constructor == <<"c","o","n","s","t","r","u","c","t","o","r">>

\* Two kinds of record (15 and 0 points) in each of four areas.
GroupRecords ==
  {Accident(a, Some(1), Null, Null, Some(STR_Fatal), Null) :
     a \in {AREA_Rohini, AREA_Dwarka, AREA_7, AREA_constructor}}
  \cup
  {Accident(a, Some(0), Null, Null, Some(STR_Minor), Null) :
     a \in {AREA_Rohini, AREA_Dwarka, AREA_7, AREA_constructor}}

\* The reduce has run: areaGroups is built, or the callback threw.
GroupAreas ==
  /\ pc = "ready"
  /\ pc' = "grouped"
  /\ ret' = IF areaGroups(accidents).threw THEN TypeError
             ELSE [threw |-> FALSE, areaGroups |-> AreaEntries(accidents)]
  /\ UNCHANGED <<accidents, others, allScores, percentile, hour,
               dominantCause, store, view, call>>

\* Object.entries(areaGroups).forEach: one score per group, in that order.
ScoreAreas ==
  /\ pc = "grouped"
  /\ ~ret.threw
  /\ pc' = "areaScores"
  /\ ret' = [threw |-> FALSE,
             areaScores |->
               [i \in 1..Len(ret.areaGroups) |->
                  <<ret.areaGroups[i][1],
                    calculateSeverityScore(ret.areaGroups[i][2])>>],
             allScores |->
               [i \in 1..Len(ret.areaGroups) |->
                  calculateSeverityScore(ret.areaGroups[i][2])]]
  /\ UNCHANGED <<accidents, others, allScores, percentile, hour,
               dominantCause, store, view, call>>

GroupInit ==
  /\ accidents \in ListsUpTo(GroupRecords, MaxLen)
  /\ others = <<>>
  /\ allScores = Null
  /\ percentile = 0
  /\ hour = 0
  /\ dominantCause = <<>>
  /\ store = <<>>
  /\ view = Null
  /\ call = Null
  /\ pc = "ready"
  /\ ret = Null

GroupSpec ==
  GroupInit /\ [][GroupAreas \/ ScoreAreas \/ RenderDashboard]_vars

(***************************************************************************)
(* The hourly histogram and the hourly prediction: inputs, calls and       *)
(* specifications HourSpec and PredictSpec.                                *)
(***************************************************************************)
MaxHist == 2

\* A record with a time column.
AccidentAt(time, fatalities, severity) ==
  [area |-> AREA_Rohini, time |-> time, fatalities |-> fatalities,
   injuries |-> Null, personsInvolved |-> Null, severity |-> severity,
   causePrimary |-> Null]

TIME_2_30_PM == <<"2",":","3","0"," ","P","M">>

TIME_12_00_AM == <<"1","2",":","0","0"," ","A","M">>

TIME_12_00_PM == <<"1","2",":","0","0"," ","P","M">>

TIME_09_00 == <<"0","9",":","0","0">>

\* Times as the imported data and free text can spell them: 12-hour and
\* 24-hour clock, either case of the marker, no separator, no digits
\* before the separator, a leading blank or form feed, and hours that
\* leave the day.
TimeStrings ==
  {TIME_2_30_PM, TIME_12_00_AM, TIME_12_00_PM, TIME_09_00,
   <<"2","3",":","5","9">>, <<"1","1",":","4","5"," ","p","m">>, <<"7",":","0","5"," ","a","m">>, <<" ","8",":","1","5">>, <<"\f","9",":","0","0">>,
   <<"1","4","3","0">>, <<"n","o","o","n">>, <<"n","/","a",":","0","0">>, <<":","3","0">>,
   <<"2","5",":","1","0">>, <<"1","3",":","0","5"," ","P","M">>, <<"-","1",":","0","0">>}

HistRecords == {AccidentAt(t, Some(0), Some(STR_Minor)) : t \in TimeStrings}

\* Prediction: six times and records of 15, 0 and 25 points.
PredictRecords ==
  LET PredictTimes ==
        {TIME_2_30_PM, TIME_12_00_AM, TIME_09_00, <<"1","4","3","0">>,
         <<"n","/","a",":","0","0">>, <<"1","3",":","0","5"," ","P","M">>,
         <<"\f","9",":","0","0">>}
  IN
  {AccidentAt(t, Some(1), Some(STR_Fatal)) : t \in PredictTimes}
  \cup {AccidentAt(t, Some(0), Some(STR_Minor)) : t \in PredictTimes}
  \cup {AccidentAt(t, Some(2), Some(STR_SEVERE)) : t \in PredictTimes}

CallHourlyDistribution ==
  /\ pc = "ready"
  /\ pc' = "hourly"
  /\ ret' = [hourly |-> getHourlyDistribution(accidents)]
  /\ UNCHANGED <<accidents, others, allScores, percentile, hour,
               dominantCause, store, view, call>>

CallPredictSafetyForHour ==
  /\ pc = "ready"
  /\ pc' = "predicted"
  /\ ret' = [level |-> predictSafetyForHour(hour, accidents, allScores)]
  /\ UNCHANGED <<accidents, others, allScores, percentile, hour,
               dominantCause, store, view, call>>

HourInit ==
  /\ accidents \in ListsUpTo(HistRecords, MaxLen)
  /\ others = <<>>
  /\ allScores = Null
  /\ percentile = 0
  /\ hour = 0
  /\ dominantCause = <<>>
  /\ store = <<>>
  /\ view = Null
  /\ call = Null
  /\ pc = "ready"
  /\ ret = Null

HourSpec == HourInit /\ [][CallHourlyDistribution]_vars

PredictInit ==
  /\ accidents \in ListsUpTo(PredictRecords, MaxHist)
  /\ others = <<>>
  /\ allScores \in {Null, Some(<<>>), Some(<<0>>), Some(<<15, 40>>),
                   Some(<<0, 15, 25, 50>>)}
  /\ percentile = 0
  /\ hour \in {0, 9, 12, 14, 25}
  /\ dominantCause = <<>>
  /\ store = <<>>
  /\ view = Null
  /\ call = Null
  /\ pc = "ready"
  /\ ret = Null

PredictSpec == PredictInit /\ [][CallPredictSafetyForHour]_vars

(***************************************************************************)
(* The cause ranking: inputs and specification CauseSpec.                  *)
(***************************************************************************)
MaxCauses == 6

\* Records with a cause and nothing else of interest.  The causes differ
\* in case and include an integer-like cause and a missing one; short lists
\* also spell the missing cause as '' and as 'Unknown', or name a property
\* that the tally object inherits ('constructor', 'toString', '__proto__').
CauseInit ==
  /\ LET AccidentBecause(causePrimary) ==
           Accident(AREA_Rohini, Some(0), Null, Null, Null, causePrimary)
         CauseValues ==
           {Some(<<"A">>), Some(<<"B">>), Some(<<"C">>), Some(<<"a">>),
            Some(<<"7">>), Null}
         InheritedValues ==
           {Some(<<"A">>), Some(<<"B">>), Some(<<"7">>),
            Some(<<"c","o","n","s","t","r","u","c","t","o","r">>),
            Some(<<"t","o","S","t","r","i","n","g">>),
            Some(<<"_","_","p","r","o","t","o","_","_">>)}
     IN  accidents \in
           ListsUpTo({AccidentBecause(c) : c \in CauseValues}, MaxCauses)
           \cup ListsUpTo({AccidentBecause(c) :
                             c \in CauseValues \cup {Some(<<>>), Some(STR_Unknown)}},
                          MaxLen)
           \cup ListsUpTo({AccidentBecause(c) : c \in InheritedValues}, MaxLen)
  /\ others = <<>>
  /\ allScores = Null
  /\ percentile = 0
  /\ hour = 0
  /\ dominantCause = <<>>
  /\ store = <<>>
  /\ view = Null
  /\ call = Null
  /\ pc = "ready"
  /\ ret = Null

CauseSpec == CauseInit /\ [][CallTopCauses \/ CallDominantCause]_vars

(***************************************************************************)
(* The recommendation lookup: inputs and specification SuggestSpec.        *)
(***************************************************************************)
MaxWords == 2

STR_Unrelated_Mystery_Cause == <<"U","n","r","e","l","a","t","e","d"," ","M","y","s","t","e","r","y"," ","C","a","u","s","e">>

\* Fragments of cause texts: every keyword in some case, words that hold
\* a keyword inside ('Train', 'Distracted'), words that hold none, and
\* words with a letter outside ASCII: the Kelvin sign for the K of 'DRUNK'
\* and 'RECKLESS', the dotted capital I for the I of 'Inattention', and
\* the E with acute of 'Ecole'.
CauseWords ==
  {<<"H","e","a","v","y">>, <<"R","a","i","n">>, <<"F","O","G">>, <<"B","a","d"," ","W","e","a","t","h","e","r">>, <<"O","v","e","r","s","p","e","e","d","i","n","g">>, <<"S","p","e","e","d">>,
   <<"I","n","a","t","t","e","n","t","i","o","n">>, <<"D","i","s","t","r","a","c","t","e","d">>, <<"R","e","d">>, <<"L","i","g","h","t">>, <<"S","i","g","n","a","l"," ","J","u","m","p","i","n","g">>,
   <<"A","l","c","o","h","o","l">>, <<"D","R","U","N","K">>, <<"P","e","d","e","s","t","r","i","a","n">>, <<"j","a","y","w","a","l","k","i","n","g">>, <<"O","v","e","r","t","a","k","i","n","g">>,
   <<"R","e","c","k","l","e","s","s">>, <<"T","r","a","i","n">>, STR_Unknown, STR_Unrelated_Mystery_Cause,
   <<"D","R","U","N","U+212A">>, <<"R","E","C","U+212A","L","E","S","S">>,
   <<"U+0130","n","a","t","t","e","n","t","i","o","n">>, <<"U+00C9","c","o","l","e">>}

RECURSIVE JoinWords(_)
\* The words of a phrase separated by single blanks.
JoinWords(words) ==
  IF words = <<>> THEN <<>>
  ELSE IF Len(words) = 1 THEN words[1]
  ELSE words[1] \o <<" ">> \o JoinWords(Tail(words))

CallCivilianSuggestions ==
  /\ pc = "ready"
  /\ pc' = "civilian"
  /\ ret' = [suggestions |-> getCivilianSuggestions(dominantCause)]
  /\ UNCHANGED <<accidents, others, allScores, percentile, hour,
               dominantCause, store, view, call>>

CallGovernmentSuggestions ==
  /\ pc = "ready"
  /\ pc' = "government"
  /\ ret' = [suggestions |-> getGovernmentSuggestions(dominantCause)]
  /\ UNCHANGED <<accidents, others, allScores, percentile, hour,
               dominantCause, store, view, call>>

SuggestInit ==
  /\ accidents = <<>>
  /\ others = <<>>
  /\ allScores = Null
  /\ percentile = 0
  /\ hour = 0
  \* Cause texts of up to MaxWords fragments, the empty text included.
  /\ dominantCause \in
       {JoinWords(words) : words \in ListsUpTo(CauseWords, MaxWords)}
  /\ store = <<>>
  /\ view = Null
  /\ call = Null
  /\ pc = "ready"
  /\ ret = Null

SuggestSpec ==
  SuggestInit /\ [][CallCivilianSuggestions \/ CallGovernmentSuggestions]_vars

(***************************************************************************)
(* The summary figures of StatisticsDashboard and LocationDetailPanel:     *)
(* totals and the average ambulance response time (specification           *)
(* ResponseSpec).                                                          *)
(***************************************************************************)
RECURSIVE SumColumn(_, _)
\* list.reduce((sum, acc) => sum + (acc[column] || 0), 0).
SumColumn(list, column) ==
  IF list = <<>> THEN 0
  ELSE SumColumn(SubSeq(list, 1, Len(list) - 1), column)
         + OrZero(list[Len(list)][column])

\* Math.round(sum / list.length): the nearest integer, a half going up;
\* 0 / 0 is NaN and stays NaN.
avgResponseTime(list) ==
  LET sum == SumColumn(list, "ambulanceTimeMin")
  IN  IF Len(list) = 0 THEN NaN
      ELSE Num((2 * sum + Len(list)) \div (2 * Len(list)))

\* A record with a time, an ambulance time and casualty counts.
AccidentAnswered(time, ambulanceTimeMin, fatalities, injuries) ==
  [area |-> AREA_Rohini, time |-> time, fatalities |-> fatalities,
   injuries |-> injuries, personsInvolved |-> Null, severity |-> Null,
   causePrimary |-> Null, ambulanceTimeMin |-> ambulanceTimeMin]

ResponseRecords ==
  {AccidentAnswered(t, a, f, Some(2)) :
     t \in {TIME_09_00, TIME_2_30_PM},
     a \in {Null, Some(0), Some(10), Some(15)}, f \in {Null, Some(1)}}

\* StatisticsDashboard renders the figures of all fetched records.
RenderStatistics ==
  /\ pc = "ready"
  /\ pc' = "statistics"
  /\ ret' = [totalAccidents |-> Len(accidents),
             totalFatalities |-> SumColumn(accidents, "fatalities"),
             totalInjuries |-> SumColumn(accidents, "injuries"),
             avgResponseTime |-> avgResponseTime(accidents)]
  /\ UNCHANGED <<accidents, others, allScores, percentile, hour,
               dominantCause, store, view, call>>

\* LocationDetailPanel renders the figures of the related records.
\* hourlyData.sort(...) sorts the array hourlyData itself and returns it, so
\* hourlyData, which the chart receives, is the sorted array; slice and
\* filter make new arrays.
RenderLocationPanel ==
  /\ pc = "ready"
  /\ pc' = "panel"
  /\ ret' = [hourlyData |-> SortByCount(getHourlyDistribution(accidents)),
             peakHours |->
               LET Counted(h) == h.count > 0
               IN  SelectSeq(SubSeq(SortByCount(getHourlyDistribution(accidents)),
                                    1, 3), Counted),
             totalFatalities |-> SumColumn(accidents, "fatalities"),
             totalInjuries |-> SumColumn(accidents, "injuries"),
             avgResponseTime |-> avgResponseTime(accidents)]
  /\ UNCHANGED <<accidents, others, allScores, percentile, hour,
               dominantCause, store, view, call>>

ResponseInit ==
  /\ accidents \in ListsUpTo(ResponseRecords, MaxLen)
  /\ others = <<>>
  /\ allScores = Null
  /\ percentile = 0
  /\ hour = 0
  /\ dominantCause = <<>>
  /\ store = <<>>
  /\ view = Null
  /\ call = Null
  /\ pc = "ready"
  /\ ret = Null

ResponseSpec ==
  ResponseInit /\ [][RenderStatistics \/ RenderLocationPanel]_vars

(***************************************************************************)
(* Numbers with a fraction.  A finite number is sign x 0.d1 d2 ... dn x    *)
(* 10^point with the decimal digits d1..dn, of which neither the first nor *)
(* the last is 0; zero has no digit.  The digits are those of the shortest *)
(* decimal that reads back as the number.                                  *)
(***************************************************************************)
Float(sign, digits, point) ==
  [finite |-> TRUE, sign |-> sign, digits |-> digits, point |-> point]

Infinity(sign) == [finite |-> FALSE, sign |-> sign, digits |-> <<>>, point |-> 0]

\* 0.x1 x2 ... <= 0.y1 y2 ... on two sequences of digits.
DigitsLeq(x, y) ==
  LET differ == {i \in 1..Len(x) : i > Len(y) \/ x[i] # y[i]}
      first == CHOOSE i \in differ : \A j \in differ : i <= j
  IN  differ = {} \/ (first <= Len(y) /\ x[first] < y[first])

\* a <= b on two numbers; the two zeros are equal.
FloatLeq(a, b) ==
  LET IsZero(x) == x.finite /\ x.digits = <<>>
      Negative(x) == x.sign = -1 /\ ~IsZero(x)
      MagLeq(x, y) ==
        IF ~y.finite THEN TRUE
        ELSE IF ~x.finite THEN FALSE
        ELSE IF IsZero(x) THEN TRUE
        ELSE IF IsZero(y) THEN FALSE
        ELSE x.point < y.point \/ (x.point = y.point /\ DigitsLeq(x.digits, y.digits))
  IN  IF Negative(a) /\ Negative(b) THEN MagLeq(b, a)
      ELSE IF Negative(a) THEN TRUE
      ELSE IF Negative(b) THEN FALSE
      ELSE MagLeq(a, b)

(***************************************************************************)
(* POST /api/accidents/bulk and DatabaseStorage.bulkCreateAccidents        *)
(* (specification BulkSpec).  The store is the accidents table as the      *)
(* sequence of its rows; the generated id and createdAt are left out.      *)
(* req.body.accidents is Null when it is not an array and Some(list)       *)
(* when it is.  bulkCreateAccidents awaits one INSERT per batch, and the   *)
(* statements of other requests can run between two of them: call is Null, *)
(* or Some of the call that has awaited an INSERT and has batches left,    *)
(* with the caller that waits for it.  One such call runs at a time.       *)
(***************************************************************************)
\* The columns insertAccidentSchema requires, of those the model follows
\* (time, also required, is present in every modelled input).
RequiredColumns == {"accidentId", "date", "area", "latitude", "longitude"}

\* The required columns an input lacks: safeParse succeeds when none.
MissingColumns(input) == {c \in RequiredColumns : input[c] = Null}

\* accident_id is unique: the rows after the insert would repeat a value.
UniqueViolation(rows, batch) ==
  LET all == rows \o batch
  IN  \E j \in (Len(rows) + 1)..Len(all) :
        \E i \in 1..(j - 1) : all[i].accidentId = all[j].accidentId

BatchSize == 100

\* Requests that add rows are followed while the table has fewer rows.
MaxRows == 2

\* One `db.insert(accidents).values(batch).returning()`: the statement
\* inserts every row of the batch or throws and inserts none.
InsertBatch(rows, batch) ==
  IF UniqueViolation(rows, batch)
    THEN [threw |-> TRUE, rows |-> rows, returning |-> <<>>]
  ELSE [threw |-> FALSE, rows |-> rows \o batch, returning |-> batch]

\* bulkCreateAccidents when it is called: its argument, the loop variable i
\* and the array results.
BulkCall(accidentsList) ==
  [accidentsList |-> accidentsList, i |-> 0, results |-> <<>>]

\* bulkCreateAccidents inside one transaction: a throw undoes the rows the
\* call inserted before it.
bulkCreateAccidents_transactional(rows, c) ==
  IF Len(c.accidentsList) = 0
    THEN [rows |-> rows, settled |-> TRUE, threw |-> FALSE, call |-> c]
  ELSE
    LET last == IF c.i + BatchSize < Len(c.accidentsList) THEN c.i + BatchSize
                ELSE Len(c.accidentsList)
        inserted == InsertBatch(rows, SubSeq(c.accidentsList, c.i + 1, last))
        next == [c EXCEPT !.i = c.i + BatchSize,
                          !.results = c.results \o inserted.returning]
        NotOfCall(row) == \A k \in 1..Len(c.results) : c.results[k] # row
    IN  IF inserted.threw
          THEN [rows |-> SelectSeq(rows, NotOfCall), settled |-> TRUE,
                threw |-> TRUE, call |-> c]
        ELSE [rows |-> inserted.rows, settled |-> next.i >= Len(c.accidentsList),
              threw |-> FALSE, call |-> next]

\* bulkCreateAccidents from the position c to its next await, its return or
\* its throw: the rows of the table then, whether the call has settled and
\* how, and its position.  The empty list returns before any statement; a
\* statement that throws ends the call and the batches inserted before it
\* stay in the table; the call returns results after the last batch.
bulkCreateAccidents(rows, c) ==
  IF Len(c.accidentsList) = 0
    THEN [rows |-> rows, settled |-> TRUE, threw |-> FALSE, call |-> c]
  ELSE
    LET last == IF c.i + BatchSize < Len(c.accidentsList) THEN c.i + BatchSize
                ELSE Len(c.accidentsList)
        inserted == InsertBatch(rows, SubSeq(c.accidentsList, c.i + 1, last))
        next == [c EXCEPT !.i = c.i + BatchSize,
                          !.results = c.results \o inserted.returning]
    IN  IF inserted.threw
          THEN [rows |-> rows, settled |-> TRUE, threw |-> TRUE, call |-> c]
        ELSE [rows |-> inserted.rows, settled |-> next.i >= Len(c.accidentsList),
              threw |-> FALSE, call |-> next]

\* The handler of the bulk route up to `await storage.bulkCreateAccidents`:
\* the response when it answers before the call, and otherwise the
\* validated records, the errors and the length of the array.
postAccidentsBulk(body) ==
  IF body = Null
    THEN [response |-> Some([status |-> 400, error |-> "accidents must be an array"]),
          validatedAccidents |-> <<>>, errors |-> <<>>, total |-> 0]
  ELSE
    LET accidentsList == body[1]
        Valid(i) == MissingColumns(accidentsList[i]) = {}
        Invalid(i) == ~Valid(i)
        indices == [i \in 1..Len(accidentsList) |-> i]
        validIndices == SelectSeq(indices, Valid)
        invalidIndices == SelectSeq(indices, Invalid)
        validated == [k \in 1..Len(validIndices) |-> accidentsList[validIndices[k]]]
        errors == [k \in 1..Len(invalidIndices) |->
                     [index |-> invalidIndices[k] - 1,
                      error |-> MissingColumns(accidentsList[invalidIndices[k]])]]
    IN  [response |->
           IF Len(validated) = 0
             THEN Some([status |-> 400, error |-> "No valid accidents to import",
                        errors |-> errors])
           ELSE Null,
         validatedAccidents |-> validated, errors |-> errors,
         total |-> Len(accidentsList)]

\* The call runs from the position c to its next await.  When it settles
\* its caller goes on and pc names the caller's end: the storage call alone
\* gives its result, the bulk route answers 201 or, from its catch, 500,
\* and the import script reports the records imported.
RunBulkCreate(caller, c) ==
  LET step == bulkCreateAccidents(store, c)
      results == IF step.threw THEN <<>> ELSE step.call.results
      settled ==
        CASE caller.name = "storage" -> [threw |-> step.threw, results |-> results]
          [] caller.name = "import" -> [threw |-> step.threw, imported |-> results]
          [] caller.name = "route" ->
               IF step.threw
                 THEN [status |-> 500, error |-> "Failed to bulk import accidents"]
               ELSE [status |-> 201,
                     imported |-> Len(results),
                     total |-> caller.total,
                     errors |-> IF Len(caller.errors) > 0 THEN Some(caller.errors)
                                ELSE Null]
  IN  /\ store' = step.rows
      /\ IF step.settled
           THEN /\ call' = Null
                /\ pc' = caller.pc
                /\ ret' = settled
           ELSE /\ call' = Some([caller |-> caller, state |-> step.call])
                /\ pc' = "inserting"
                /\ ret' = Null

\* The bulk route on a body, from the request to the response or to the
\* first INSERT that leaves batches to insert.
HandleBulk(body, donePc) ==
  LET checked == postAccidentsBulk(body)
  IN  IF checked.response # Null
        THEN /\ store' = store
             /\ call' = Null
             /\ pc' = donePc
             /\ ret' = checked.response[1]
      ELSE RunBulkCreate([name |-> "route", pc |-> donePc,
                          total |-> checked.total, errors |-> checked.errors],
                         BulkCall(checked.validatedAccidents))

\* One record of a request body, with the columns the model follows.
InsertInput(accidentId, area) ==
  [accidentId |-> accidentId, date |-> Some(<<"2","0","2","4","-","0","1","-","1","5">>), area |-> area,
   injuries |-> Some(2), fatalities |-> Some(0),
   latitude |-> Some(Float(1, <<2, 8, 6, 1>>, 2)),
   longitude |-> Some(Float(1, <<7, 7, 2, 3>>, 2))]

\* Inputs: an accident id and an absent one, with and without an area,
\* then, under two more ids, a record with a negative count and one whose
\* area is ''.
InsertInputs ==
  {InsertInput(a, r) :
     a \in {Null, Some(<<"A","1">>)},
     r \in {Null, Some(AREA_Rohini)}}
  \cup {[InsertInput(Some(<<"A","3">>), Some(AREA_Rohini))
           EXCEPT !.fatalities = Some(-1), !.date = Some(<<"2","0","2","4","-","0","3","-","0","1">>)],
        [InsertInput(Some(<<"A","2">>), Some(<<>>)) EXCEPT !.injuries = Some(-2)]}

\* A client posts a body; the handler answers and the table may grow.
PostBulk ==
  \E body \in {Null} \cup {Some(list) :
                 list \in ListsUpTo(InsertInputs, MaxPairLen)} :
    /\ Len(store) < MaxRows
    /\ call = Null
    /\ accidents' = body
    /\ HandleBulk(body, "responded")
    /\ UNCHANGED <<others, allScores, percentile, hour, dominantCause, view>>

BulkInit ==
  /\ accidents = Null
  /\ others = <<>>
  /\ allScores = Null
  /\ percentile = 0
  /\ hour = 0
  /\ dominantCause = <<>>
  /\ store = <<>>
  /\ view = Null
  /\ call = Null
  /\ pc = "ready"
  /\ ret = Null

BulkSpec == BulkInit /\ [][PostBulk]_vars

(***************************************************************************)
(* The record store behind the routes: POST /api/accidents, the import     *)
(* script and the GET routes over the same table (specification            *)
(* StoreSpec, which starts from the empty table of BulkInit).              *)
(***************************************************************************)
\* POST /api/accidents: the table after the request and the response.
\* createAccident is one insert, which throws on a repeated accident_id.
postAccident(rows, body) ==
  IF MissingColumns(body) # {}
    THEN [store |-> rows,
          response |-> [status |-> 400, error |-> MissingColumns(body)]]
  ELSE IF UniqueViolation(rows, <<body>>)
    THEN [store |-> rows,
          response |-> [status |-> 500, error |-> "Failed to create accident"]]
  ELSE [store |-> rows \o <<body>>,
        response |-> [status |-> 201, accident |-> body]]

\* parseFloat(val): leading white space is skipped, then the longest prefix
\* that is a decimal literal (a sign, digits with a point before, inside or
\* after them, an exponent) or a signed 'Infinity' is the value, and the
\* result is NaN when there is none.  The literal is read from left to
\* right: `part` is the part of it being read, `read` whether a digit of
\* the mantissa has been read, `digits` the significant digits read up to
\* the last one that is not 0, `zeros` the number of zeros read after that
\* one and `point` the place of the point.  The value is exact for a literal
\* of at most 15 significant digits whose value is 0, an infinity, or at
\* least 1e-307 in size; other literals are outside the model.
parseFloat(val) ==
  LET trimmed == TrimStart(val)
      signed == trimmed # <<>> /\ Head(trimmed) \in {"+", "-"}
      sign == IF signed /\ Head(trimmed) = "-" THEN -1 ELSE 1
      text == IF signed THEN Tail(trimmed) ELSE trimmed
      IsDigitAt(i) == i <= Len(text) /\ IsDigit(text[i])
      IsAt(i, chars) == i <= Len(text) /\ text[i] \in chars
      \* 0.179769313486232e309 and every larger value round to Infinity,
      \* 0.247032822920623e-323 and every smaller one to 0.
      RoundsToInfinity == <<1, 7, 9, 7, 6, 9, 3, 1, 3, 4, 8, 6, 2, 3, 2>>
      RoundsToZero == <<2, 4, 7, 0, 3, 2, 8, 2, 2, 9, 2, 0, 6, 2, 3>>
      Value(st) ==
        IF ~st.read THEN NaN
        ELSE IF st.digits = <<>> THEN Num(Float(sign, <<>>, 0))
        ELSE
          CASE Len(st.digits) <= 15 /\ st.exponent <= 99999 ->
            LET point == st.point + st.expSign * st.exponent
            IN  IF \/ point > 309
                   \/ (point = 309 /\ DigitsLeq(RoundsToInfinity, st.digits))
                  THEN Num(Infinity(sign))
                ELSE IF \/ point < -323
                        \/ (point = -323 /\ DigitsLeq(st.digits, RoundsToZero))
                  THEN Num(Float(sign, <<>>, 0))
                ELSE CASE point >= -306 -> Num(Float(sign, st.digits, point))
      Digit(st, d) ==
        IF st.part = "exponent"
          THEN [st EXCEPT !.exponent = IF @ > 99999 THEN @ ELSE 10 * @ + d]
        ELSE IF d = 0 /\ st.digits = <<>>
          THEN [st EXCEPT !.read = TRUE,
                          !.point = IF st.part = "fraction" THEN @ - 1 ELSE @]
        ELSE [st EXCEPT !.read = TRUE,
                        !.digits = IF d = 0 THEN @
                                   ELSE @ \o [k \in 1..st.zeros |-> 0] \o <<d>>,
                        !.zeros = IF d = 0 THEN @ + 1 ELSE 0,
                        !.point = IF st.part = "whole" THEN @ + 1 ELSE @]
      Read[st \in [part : {"whole", "fraction", "exponent"}, read : BOOLEAN,
                   digits : Seq(0..9), zeros : Nat, point : Int,
                   expSign : {-1, 1}, exponent : Nat],
           i \in Nat] ==
        IF IsDigitAt(i) THEN Read[Digit(st, DigitValue(text[i])), i + 1]
        ELSE IF st.part = "whole" /\ IsAt(i, {"."})
          THEN Read[[st EXCEPT !.part = "fraction"], i + 1]
        ELSE IF st.part # "exponent" /\ st.read /\ IsAt(i, {"e", "E"})
                /\ IsDigitAt(i + 1)
          THEN Read[[st EXCEPT !.part = "exponent"], i + 1]
        ELSE IF st.part # "exponent" /\ st.read /\ IsAt(i, {"e", "E"})
                /\ IsAt(i + 1, {"+", "-"}) /\ IsDigitAt(i + 2)
          THEN Read[[st EXCEPT !.part = "exponent",
                               !.expSign = IF text[i + 1] = "-" THEN -1 ELSE 1],
                    i + 2]
        ELSE Value(st)
  IN  IF Len(text) >= 8 /\ SubSeq(text, 1, 8) = <<"I","n","f","i","n","i","t","y">>
        THEN Num(Infinity(sign))
      ELSE Read[[part |-> "whole", read |-> FALSE, digits |-> <<>>, zeros |-> 0,
                 point |-> 0, expSign |-> 1, exponent |-> 0], 1]

\* The rectangle around Delhi: 28.4 to 28.88 north, 76.84 to 77.35 east.
DELHI_BOUNDS ==
  [minLat |-> Float(1, <<2, 8, 4>>, 2), maxLat |-> Float(1, <<2, 8, 8, 8>>, 2),
   minLng |-> Float(1, <<7, 6, 8, 4>>, 2), maxLng |-> Float(1, <<7, 7, 3, 5>>, 2)]

isWithinDelhiBounds(lat, lng) ==
  /\ FloatLeq(DELHI_BOUNDS.minLat, lat)
  /\ FloatLeq(lat, DELHI_BOUNDS.maxLat)
  /\ FloatLeq(DELHI_BOUNDS.minLng, lng)
  /\ FloatLeq(lng, DELHI_BOUNDS.maxLng)

\* importAccidents on the parsed records of the file, up to the call of
\* bulkCreateAccidents: the array it passes.  Every column of a parsed
\* record is a text, '' when the cell is blank.  `parseNumber(x) || 0` is
\* 0 for null and for either zero, and the filter drops a record whose
\* latitude or longitude is 0.  The column type real returns a value of at
\* most 6 significant digits within its range as it was given; the inputs
\* stay inside that.
importAccidents(records) ==
  LET IsZero(x) == x.finite /\ x.digits = <<>>
      parseNumber(val) ==
        IF val = <<>> \/ parseFloat(val) = NaN THEN Null
        ELSE Some(parseFloat(val)[1])
      parseIntOrNull(val) ==
        IF val = <<>> \/ parseInt(val) = NaN THEN Null
        ELSE Some(parseInt(val)[1])
      OrZeroFloat(x) ==
        IF x = Null \/ IsZero(x[1]) THEN Float(1, <<>>, 0) ELSE x[1]
      Mapped(record) ==
        [accidentId |-> Some(record.accident_id),
         date |-> Some(record.date),
         area |-> Some(IF record.area = <<>> THEN STR_Unknown ELSE record.area),
         injuries |-> parseIntOrNull(record.injuries),
         fatalities |-> parseIntOrNull(record.fatalities),
         latitude |-> Some(OrZeroFloat(parseNumber(record.latitude))),
         longitude |-> Some(OrZeroFloat(parseNumber(record.longitude)))]
      Kept(acc) == ~IsZero(acc.latitude[1]) /\ ~IsZero(acc.longitude[1])
      mapped == [i \in 1..Len(records) |-> Mapped(records[i])]
  IN  SelectSeq(mapped, Kept)

\* The GET routes in the order registerRoutes registers them, each path
\* as its segments; a segment that begins with ':' is a parameter.
GetRoutes ==
  <<<<<<"a","p","i">>, <<"a","c","c","i","d","e","n","t","s">>>>,
    <<<<"a","p","i">>, <<"a","c","c","i","d","e","n","t","s">>, <<":","i","d">>>>,
    <<<<"a","p","i">>, <<"a","c","c","i","d","e","n","t","s">>, <<"a","r","e","a">>, <<":","a","r","e","a">>>>,
    <<<<"a","p","i">>, <<"a","c","c","i","d","e","n","t","s">>, <<"d","a","t","e","-","r","a","n","g","e">>>>,
    <<<<"a","p","i">>, <<"s","t","a","t","i","s","t","i","c","s">>, <<"a","r","e","a","s">>>>,
    <<<<"a","p","i">>, <<"a","c","c","i","d","e","n","t","s">>, <<"s","e","v","e","r","i","t","y">>, <<":","s","e","v","e","r","i","t","y">>>>>>

\* gen_random_uuid(): the primary key of the row at position r.
Uuid(r) == <<"3","f","2","b","8","a","1","0","-","5","c","4","d","-","4","e","6","f","-","8","a","7","b","-","0","0","0","0","0","0","0","0","0","0","0">> \o <<DigitChars[r + 1]>>

RECURSIVE TextLeq(_, _)
\* a <= b on two texts of the column date.  PostgreSQL compares text by the
\* collation of the database; under the C and C.UTF-8 locales, the default
\* of the database service the repository names, that is the order of the
\* code points, and a text comes before every text it is a prefix of.
TextLeq(a, b) ==
  LET Code(c) == CHOOSE i \in 1..Len(CodeUnits) : CodeUnits[i] = c
  IN  IF a = <<>> THEN TRUE
      ELSE IF b = <<>> THEN FALSE
      ELSE IF Head(a) = Head(b) THEN TextLeq(Tail(a), Tail(b))
      ELSE Code(Head(a)) < Code(Head(b))

getAccidentsByDateRange(rows, startDate, endDate) ==
  LET InRange(row) ==
        TextLeq(startDate, row.date[1]) /\ TextLeq(row.date[1], endDate)
  IN  SelectSeq(rows, InRange)

RECURSIVE decodeURIComponent(_)
\* The router decodes a parameter with decodeURIComponent: Some of the
\* decoded text, or Null when an escape is malformed.  Escapes of ASCII
\* characters are followed; those of longer UTF-8 sequences are outside
\* the model.
decodeURIComponent(s) ==
  IF s = <<>> THEN Some(<<>>)
  ELSE
    LET escaped == Head(s) = "%"
        wellFormed == /\ Len(s) >= 3
                      /\ DigitsValue(<<s[2]>>, 16, NaN) # NaN
                      /\ DigitsValue(<<s[3]>>, 16, NaN) # NaN
        byte == DigitsValue(<<s[2], s[3]>>, 16, NaN)[1]
        rest == decodeURIComponent(IF escaped THEN SubSeq(s, 4, Len(s)) ELSE Tail(s))
    IN  IF escaped /\ ~wellFormed THEN Null
        ELSE IF rest = Null THEN Null
        ELSE IF ~escaped THEN Some(<<Head(s)>> \o rest[1])
        ELSE CASE byte < 128 -> Some(<<CodeUnits[byte + 1]>> \o rest[1])

\* A GET request, with the path as the texts that follow each '/' of the
\* URL ('/api/accidents/' is 'api', 'accidents', ''): the first registered
\* route that matches the path answers it.  The router ignores one trailing
\* '/', compares the letters A-Z without case, and a parameter takes one or
\* more characters.  `route` is the position of the route in GetRoutes, 0
\* when none of them matches and the request leaves registerRoutes.  A
\* parameter that does not decode is answered 400 by the error handler.
\* The handlers of the collection, statistics and severity routes read
\* what the modelled rows leave out, and their body is not followed.
getRequest(rows, path, query) ==
  LET segments == IF Len(path) > 1 /\ path[Len(path)] = <<>>
                    THEN SubSeq(path, 1, Len(path) - 1)
                  ELSE path
      Fold(c) == IF \E i \in 1..26 : UpperChars[i] = c THEN LowerOf[c] ELSE c
      SameLetters(a, b) ==
        Len(a) = Len(b) /\ \A i \in 1..Len(a) : Fold(a[i]) = Fold(b[i])
      IsParam(segment) == segment # <<>> /\ Head(segment) = ":"
      Matches(k) ==
        /\ Len(GetRoutes[k]) = Len(segments)
        /\ \A i \in 1..Len(segments) :
             IF IsParam(GetRoutes[k][i]) THEN segments[i] # <<>>
             ELSE SameLetters(GetRoutes[k][i], segments[i])
      matching == {k \in 1..Len(GetRoutes) : Matches(k)}
      route == IF matching = {} THEN 0
               ELSE CHOOSE k \in matching : \A j \in matching : k <= j
      param == IF route \in {2, 3, 6}
                 THEN decodeURIComponent(segments[Len(segments)])
               ELSE Some(<<>>)
      byId == {r \in 1..Len(rows) : Uuid(r) = param[1]}
      InArea(row) == row.area = param
      Falsy(value) == value = Null \/ value = Some(<<>>)
  IN  IF route = 0 THEN [route |-> 0]
      ELSE IF param = Null THEN [route |-> route, status |-> 400]
      ELSE
        CASE route = 2 ->
               IF byId = {}
                 THEN [route |-> 2, status |-> 404, error |-> "Accident not found"]
               ELSE [route |-> 2, status |-> 200,
                     body |-> <<rows[CHOOSE r \in byId : TRUE]>>]
          [] route = 3 ->
               [route |-> 3, status |-> 200, body |-> SelectSeq(rows, InArea)]
          [] route = 4 ->
               IF Falsy(query.startDate) \/ Falsy(query.endDate)
                 THEN [route |-> 4, status |-> 400,
                       error |-> "startDate and endDate are required"]
               ELSE [route |-> 4, status |-> 200,
                     body |-> getAccidentsByDateRange(rows, query.startDate[1],
                                                      query.endDate[1])]
          [] route \in {1, 5, 6} -> [route |-> route, status |-> 200]

\* A client posts one record.
PostAccident ==
  \E body \in InsertInputs :
    /\ Len(store) < MaxRows
    /\ store' = postAccident(store, body).store
    /\ ret' = postAccident(store, body).response
    /\ pc' = "created"
    /\ UNCHANGED <<accidents, others, allScores, percentile, hour,
                 dominantCause, view, call>>

\* The import script runs on a file.
\* Parsed records of the file: inside the rectangle, far from it with no
\* area, just north of it with a negative count, two with a blank or
\* unreadable coordinate, and one a thousandth of a degree from 0 with
\* four decimals in its longitude.
RunImport ==
  LET CsvRecord(accident_id, area, fatalities, latitude, longitude) ==
        [accident_id |-> accident_id, date |-> <<"2","0","2","4","-","0","2","-","1","0">>, area |-> area,
         injuries |-> <<"1">>, fatalities |-> fatalities,
         latitude |-> latitude, longitude |-> longitude]
      CsvRecords ==
        {CsvRecord(<<"C","1">>, AREA_Rohini, <<"1">>, <<"2","8",".","6","1">>, <<"7","7",".","2","3">>),
         CsvRecord(<<"C","2">>, <<>>, <<>>, <<"1","9",".","0","7">>, <<"7","2",".","8","7">>),
         CsvRecord(<<"C","3">>, AREA_Dwarka, <<"-","3">>, <<"2","8",".","9">>, <<"7","7",".","0">>),
         CsvRecord(<<"C","4">>, AREA_Rohini, <<"0">>, <<>>, <<"7","7",".","2","3">>),
         CsvRecord(<<"C","5">>, AREA_Rohini, <<"2">>, <<"2","8",".","6","1">>, <<"a","b","c">>),
         CsvRecord(<<"C","6">>, AREA_Dwarka, <<"0">>, <<"0",".","0","0","1">>, <<"7","7",".","2","0","9","0">>)}
  IN
  \E records \in ListsUpTo(CsvRecords, MaxPairLen) :
    /\ Len(store) < MaxRows
    /\ call = Null
    /\ RunBulkCreate([name |-> "import", pc |-> "imported", total |-> 0,
                      errors |-> <<>>],
                     BulkCall(importAccidents(records)))
    /\ UNCHANGED <<accidents, others, allScores, percentile, hour,
                 dominantCause, view>>

\* A client sends a GET request; the table does not change.  The paths:
\* the date range with and without its parameters, an id, an area as it
\* is, in capitals and with an escape, the collection with a trailing '/',
\* and a path that no route has.
GetRequest ==
  LET NoQuery == [startDate |-> Null, endDate |-> Null]
      DateRange == <<<<"a","p","i">>, <<"a","c","c","i","d","e","n","t","s">>, <<"d","a","t","e","-","r","a","n","g","e">>>>
  IN
  \E request \in
       {[path |-> DateRange, query |-> [startDate |-> s, endDate |-> e]] :
          s \in {Null, Some(<<>>), Some(<<"2","0","2","4","-","0","1","-","0","1">>)},
          e \in {Null, Some(<<"2","0","2","4","-","0","2","-","2","8">>)}}
       \cup {[path |-> p, query |-> NoQuery] :
               p \in {<<<<"a","p","i">>, <<"a","c","c","i","d","e","n","t","s">>, Uuid(1)>>,
                      <<<<"a","p","i">>, <<"a","c","c","i","d","e","n","t","s">>, <<"a","r","e","a">>, AREA_Rohini>>,
                      <<<<"A","P","I">>, <<"a","c","c","i","d","e","n","t","s">>, <<"A","r","e","a">>, AREA_Rohini>>,
                      <<<<"a","p","i">>, <<"a","c","c","i","d","e","n","t","s">>, <<"a","r","e","a">>, <<"R","o","h","%","6","9","n","i">>>>,
                      <<<<"a","p","i">>, <<"a","c","c","i","d","e","n","t","s">>, <<"a","r","e","a">>, <<"R","o","h","i","n","i","%">>>>,
                      <<<<"a","p","i">>, <<"a","c","c","i","d","e","n","t","s">>, <<>>>>,
                      <<<<"a","p","i">>, <<"h","e","a","l","t","h">>>>}} :
    /\ ret' = [request |-> request,
               response |-> getRequest(store, request.path, request.query)]
    /\ pc' = "answered"
    /\ UNCHANGED <<accidents, others, allScores, percentile, hour,
                 dominantCause, store, view, call>>

StoreSpec ==
  BulkInit /\ [][PostAccident \/ PostBulk \/ RunImport \/ GetRequest]_vars

(***************************************************************************)
(* bulkCreateAccidents and the bulk route on inputs longer than a batch    *)
(* (specification BatchSpec).  While the call waits between two batches a  *)
(* client posts a record whose accidentId a later batch holds, and a       *)
(* client reads the rows of the area.                                      *)
(***************************************************************************)
MaxBatches == 2

\* The table before the call: one row.
SeedRows == <<InsertInput(Some(<<"A","1">>), Some(AREA_Rohini))>>

\* The body holds n records B001, B002, ... of which record d, when d > 0,
\* repeats the accidentId of the row in the table; n is next to a multiple
\* of the batch size.
BatchInit ==
  /\ LET BodyId(i) ==
           <<"B", DigitChars[(i \div 100) + 1],
             DigitChars[((i \div 10) % 10) + 1], DigitChars[(i % 10) + 1]>>
         Lengths == {0, 1} \cup {k * BatchSize + e :
                                   k \in 1..MaxBatches, e \in {-1, 0, 1}}
         Repeats(n) ==
           {0} \cup {d \in {1, 50, 150} \cup
                            {k * BatchSize + e : k \in 1..MaxBatches, e \in {0, 1}} :
                       d <= n}
         LargeInput(n, d) ==
           [i \in 1..n |->
              InsertInput(Some(IF i = d THEN SeedRows[1].accidentId[1] ELSE BodyId(i)),
                          Some(AREA_Rohini))]
     IN  accidents \in
           UNION {{Some(LargeInput(n, d)) : d \in Repeats(n)} : n \in Lengths}
  /\ others = <<>>
  /\ allScores = Null
  /\ percentile = 0
  /\ hour = 0
  /\ dominantCause = <<>>
  /\ store = SeedRows
  /\ view = Null
  /\ call = Null
  /\ pc = "ready"
  /\ ret = Null

\* The storage is called with the records of the body.
CallBulkCreate ==
  /\ pc = "ready"
  /\ RunBulkCreate([name |-> "storage", pc |-> "bulkCreated", total |-> 0,
                    errors |-> <<>>],
                   BulkCall(accidents[1]))
  /\ UNCHANGED <<accidents, others, allScores, percentile, hour,
               dominantCause, view>>

\* The body is posted to /api/accidents/bulk.
PostBatches ==
  /\ pc = "ready"
  /\ HandleBulk(accidents, "bulkPosted")
  /\ UNCHANGED <<accidents, others, allScores, percentile, hour,
               dominantCause, view>>

\* The awaited INSERT has returned: the call goes on with its next batch.
ResumeBulkCreate ==
  /\ call # Null
  /\ RunBulkCreate(call[1].caller, call[1].state)
  /\ UNCHANGED <<accidents, others, allScores, percentile, hour,
               dominantCause, view>>

\* Between two batches a client posts the record B150 to /api/accidents.
PostBetweenBatches ==
  LET body == InsertInput(Some(<<"B","1","5","0">>), Some(AREA_Rohini))
  IN  /\ call # Null
      /\ store' = postAccident(store, body).store
      /\ ret' = postAccident(store, body).response
      /\ pc' = "created"
      /\ UNCHANGED <<accidents, others, allScores, percentile, hour,
                   dominantCause, view, call>>

\* Between two batches a client reads /api/accidents/area/Rohini.
GetBetweenBatches ==
  LET request == [path |-> <<<<"a","p","i">>, <<"a","c","c","i","d","e","n","t","s">>, <<"a","r","e","a">>, AREA_Rohini>>,
                  query |-> [startDate |-> Null, endDate |-> Null]]
  IN  /\ call # Null
      /\ ret' = [request |-> request,
                 response |-> getRequest(store, request.path, request.query)]
      /\ pc' = "answered"
      /\ UNCHANGED <<accidents, others, allScores, percentile, hour,
                   dominantCause, store, view, call>>

BatchSpec ==
  BatchInit /\ [][CallBulkCreate \/ PostBatches \/ ResumeBulkCreate \/
                  PostBetweenBatches \/ GetBetweenBatches]_vars

(***************************************************************************)
(* The view state of the Dashboard page (specification ViewSpec).  view    *)
(* holds the three useState values and effectPending, which is TRUE from   *)
(* a commit that changed viewMode (the mount included) until the effect    *)
(* that depends on viewMode has run.  React runs a pending effect before   *)
(* it handles the next event, so the handlers wait for it.  pc names the   *)
(* last handler and ret holds its argument.                                *)
(***************************************************************************)
\* handleAreaSelect that selects the record and leaves the view mode.
handleAreaSelect_keepsMode(state, areaAccidents) ==
  IF Len(areaAccidents) > 0
    THEN [state EXCEPT !.selectedAccident = Some(areaAccidents[1])]
  ELSE state

\* The two state updates of handleAreaSelect, committed together.
handleAreaSelect(state, areaAccidents) ==
  IF Len(areaAccidents) > 0
    THEN [state EXCEPT !.selectedAccident = Some(areaAccidents[1]),
                       !.viewMode = "map",
                       !.effectPending = (state.viewMode # "map")]
  ELSE state

\* `selectedAccident && <LocationDetailPanel .../>` inside the 'map' branch.
PanelShown == view.viewMode = "map" /\ view.selectedAccident # Null

\* The fetched records: two of one area and one of another.
ViewInit ==
  /\ accidents \in
       ListsUpTo({Accident(AREA_Rohini, Some(0), Null, Null, Some(STR_Minor), Null),
                  Accident(AREA_Rohini, Some(1), Null, Null, Some(STR_Fatal), Null),
                  Accident(AREA_Dwarka, Some(0), Null, Null, Some(STR_Minor), Null)},
                 MaxLen)
  /\ others = <<>>
  /\ allScores = Null
  /\ percentile = 0
  /\ hour = 0
  /\ dominantCause = <<>>
  /\ store = <<>>
  /\ view = [viewMode |-> "stats", selectedAccident |-> Null,
             mobileMenuOpen |-> FALSE, effectPending |-> TRUE]
  /\ call = Null
  /\ pc = "ready"
  /\ ret = Null

\* A click on Map View or Statistics; the buttons of the mobile menu and
\* of the bottom bar also close the menu.
SwitchView ==
  \E mode \in {"map", "stats"}, closesMenu \in BOOLEAN :
    /\ ~view.effectPending
    /\ view' = [view EXCEPT !.viewMode = mode,
                            !.mobileMenuOpen = IF closesMenu THEN FALSE ELSE @,
                            !.effectPending = (mode # view.viewMode)]
    /\ pc' = "viewSwitched"
    /\ ret' = [mode |-> mode]
    /\ UNCHANGED <<accidents, others, allScores, percentile, hour,
                 dominantCause, store, call>>

ToggleMobileMenu ==
  /\ ~view.effectPending
  /\ view' = [view EXCEPT !.mobileMenuOpen = ~@]
  /\ pc' = "menuToggled"
  /\ ret' = Null
  /\ UNCHANGED <<accidents, others, allScores, percentile, hour,
               dominantCause, store, call>>

\* A click on a marker of SafetyMap, which is rendered in 'map' mode.
ClickMarker ==
  \E i \in 1..Len(accidents) :
    /\ ~view.effectPending
    /\ view.viewMode = "map"
    /\ view' = [view EXCEPT !.selectedAccident = Some(accidents[i])]
    /\ pc' = "markerClicked"
    /\ ret' = [accident |-> accidents[i]]
    /\ UNCHANGED <<accidents, others, allScores, percentile, hour,
                 dominantCause, store, call>>

\* onClose of LocationDetailPanel, which is there when the panel is shown.
ClosePanel ==
  /\ ~view.effectPending
  /\ PanelShown
  /\ view' = [view EXCEPT !.selectedAccident = Null]
  /\ pc' = "panelClosed"
  /\ ret' = Null
  /\ UNCHANGED <<accidents, others, allScores, percentile, hour,
               dominantCause, store, call>>

\* An area is chosen in AreaSearch, which calls onSelectArea with the
\* records of that area when there are any; the AreaSearch of the mobile
\* menu also closes the menu.
SelectArea ==
  \E areaName \in {AREA_Rohini, AREA_Dwarka, AREA_7}, closesMenu \in BOOLEAN :
    LET InArea(a) == a.area = areaName
        areaAccidents == SelectSeq(accidents, InArea)
    IN  /\ ~view.effectPending
        /\ view' = IF Len(areaAccidents) > 0
                     THEN [handleAreaSelect(view, areaAccidents) EXCEPT
                             !.mobileMenuOpen = IF closesMenu THEN FALSE ELSE @]
                   ELSE view
        /\ pc' = "areaSelected"
        /\ ret' = [areaAccidents |-> areaAccidents]
        /\ UNCHANGED <<accidents, others, allScores, percentile, hour,
                     dominantCause, store, call>>

\* useEffect(..., [viewMode]).
RunEffect ==
  /\ view.effectPending
  /\ view' = [view EXCEPT
                !.selectedAccident = IF view.viewMode = "stats" THEN Null ELSE @,
                !.effectPending = FALSE]
  /\ pc' = "effect"
  /\ ret' = Null
  /\ UNCHANGED <<accidents, others, allScores, percentile, hour,
               dominantCause, store, call>>

ViewSpec ==
  ViewInit /\ [][SwitchView \/ ToggleMobileMenu \/ ClickMarker \/ ClosePanel
                 \/ SelectArea \/ RunEffect]_vars

(***************************************************************************)
(* Claims about calculateSeverityScore (specification Spec).               *)
(***************************************************************************)
RECURSIVE FatalitySum(_)
\* Sum of the fatalities column, a null counting as 0.
FatalitySum(list) ==
  IF list = <<>> THEN 0
  ELSE (IF Head(list).fatalities = Null THEN 0 ELSE Head(list).fatalities[1])
       + FatalitySum(Tail(list))

\* Number of records whose lower-cased severity label is in labels.
LabelCount(list, labels) ==
  Cardinality({i \in 1..Len(list) :
                 /\ list[i].severity # Null
                 /\ toLowerCase(list[i].severity[1]) \in labels})

\* C1: the score is exactly 10 x (sum of fatalities, null as 0) + 5 x (records
\* labelled severe or fatal, any case) + 2 x (records labelled moderate, any
\* case); a null or unrecognized label adds nothing beyond the fatality term.
C1_ScoreFormula ==
  pc = "scored" =>
    ret.score = 10 * FatalitySum(accidents)
                + 5 * LabelCount(accidents, {STR_severe, STR_fatal})
                + 2 * LabelCount(accidents, {STR_moderate})

\* The end-to-end scenario: fatalities [1,0,0] with labels fatal, moderate,
\* minor scores 10 + 5 + 2 = 17.
C1_Witness ==
  /\ pc = "scored"
  /\ Len(accidents) = 3
  /\ accidents[1].fatalities = Some(1)
  /\ accidents[1].severity = Some(STR_Fatal)
  /\ accidents[2].fatalities = Some(0)
  /\ accidents[2].severity = Some(STR_moderate)
  /\ accidents[3].fatalities = Some(0)
  /\ accidents[3].severity = Some(STR_Minor)
  /\ ret.score = 17

\* The list with the fatality count of record i raised by one.
RaiseFatality(list, i) ==
  [list EXCEPT ![i].fatalities = Some(OrZero(list[i].fatalities) + 1)]

\* C8: a non-empty group of records with non-negative or null fatalities
\* scores at least 0, and one more fatality on any single record raises the
\* score by exactly 10.
C8_NonNegativeAndStep ==
  (pc = "scored" /\ accidents # <<>>) =>
    /\ ret.score >= 0
    /\ \A i \in 1..Len(accidents) :
         calculateSeverityScore(RaiseFatality(accidents, i)) = ret.score + 10

\* A scored group holding a record with one fatality and one with none.
C8_Witness ==
  /\ pc = "scored"
  /\ \E i, j \in 1..Len(accidents) :
       /\ accidents[i].fatalities = Some(1)
       /\ accidents[j].fatalities = Null
  /\ ret.score >= 10

(***************************************************************************)
(* The percentile and the two policies as the specification words them.    *)
(***************************************************************************)
\* The values of a list arranged in ascending order.
Ascending(scores) ==
  LET n == Len(scores)
      f == CHOOSE g \in Permutations(1..n) :
             \A i \in 1..(n - 1) : scores[g[i]] <= scores[g[i + 1]]
  IN  [i \in 1..n |-> scores[f[i]]]

\* 100 x the percentile of rank p: index = p/100 x (n - 1) into the ascending
\* values, interpolated linearly by the fractional part; 0 for no values.
InterpolatedPercentile100(scores, p) ==
  IF scores = <<>> THEN 0
  ELSE
    LET sorted == Ascending(scores)
        whole == (p * (Len(scores) - 1)) \div 100
        fraction100 == (p * (Len(scores) - 1)) % 100
    IN  IF fraction100 = 0 THEN 100 * sorted[whole + 1]
        ELSE (100 - fraction100) * sorted[whole + 1]
             + fraction100 * sorted[whole + 2]

\* Policy A: the tier of a score against the quartiles of a population.
PolicyA(score, population) ==
  IF 100 * score >= InterpolatedPercentile100(population, 75) THEN "high-risk"
  ELSE IF 100 * score >= InterpolatedPercentile100(population, 25) THEN "moderate"
  ELSE "safe"

\* Policy B: the tier of a score against the absolute thresholds.
PolicyB(score) ==
  CASE score >= 50 -> "high-risk"
    [] score >= 20 /\ score < 50 -> "moderate"
    [] score < 20 -> "safe"

\* safe < moderate < high-risk.
TierRank(level) ==
  CASE level = "safe" -> 0
    [] level = "moderate" -> 1
    [] level = "high-risk" -> 2

(***************************************************************************)
(* Claims about the classifier (specification ClassifySpec).               *)
(***************************************************************************)
\* C2: with a non-empty group and a non-empty population the tier is
\* high-risk iff score >= 75th percentile, moderate iff 25th percentile <=
\* score < 75th percentile, and safe iff score < 25th percentile.
C2_PolicyAQuartiles ==
  (/\ pc = "classified"
   /\ accidents # <<>>
   /\ allScores # Null
   /\ allScores[1] # <<>>) =>
    LET score100 == 100 * calculateSeverityScore(accidents)
        p75 == InterpolatedPercentile100(allScores[1], 75)
        p25 == InterpolatedPercentile100(allScores[1], 25)
    IN  /\ ret.level = "high-risk" <=> score100 >= p75
        /\ ret.level = "moderate" <=> (score100 >= p25 /\ score100 < p75)
        /\ ret.level = "safe" <=> score100 < p25

\* Score 25 against the population [0, 50], whose quartiles 12.5 and 37.5 are
\* both interpolated, is moderate.
C2_Witness ==
  /\ pc = "classified"
  /\ allScores = Some(<<0, 50>>)
  /\ calculateSeverityScore(accidents) = 25
  /\ ret.level = "moderate"

\* C3: with a non-empty group and no population the tier is high-risk iff
\* score >= 50, moderate iff 20 <= score < 50 and safe iff score < 20.
C3_PolicyBThresholds ==
  (pc = "classified" /\ accidents # <<>> /\ allScores = Null) =>
    LET score == calculateSeverityScore(accidents)
    IN  /\ ret.level = "high-risk" <=> score >= 50
        /\ ret.level = "moderate" <=> (score >= 20 /\ score < 50)
        /\ ret.level = "safe" <=> score < 20

\* Score exactly 50 with no population is high-risk.
C3_Witness ==
  /\ pc = "classified"
  /\ allScores = Null
  /\ calculateSeverityScore(accidents) = 50
  /\ ret.level = "high-risk"

\* C5 as claimed: for a non-empty group, every passed population (an empty
\* list included) gets the percentile tier, and the absolute thresholds
\* decide only when the argument is omitted.
C5_PassedPopulationMeansPolicyA ==
  (pc = "classified" /\ accidents # <<>>) =>
    LET score == calculateSeverityScore(accidents)
    IN  /\ allScores # Null => ret.level = PolicyA(score, allScores[1])
        /\ allScores = Null => ret.level = PolicyB(score)

\* C5 amended: for a non-empty group, a passed non-empty population gets the
\* percentile tier; an omitted or an empty population gets the absolute
\* thresholds.
C5_PolicySelection ==
  (pc = "classified" /\ accidents # <<>>) =>
    LET score == calculateSeverityScore(accidents)
    IN  IF allScores # Null /\ allScores[1] # <<>>
          THEN ret.level = PolicyA(score, allScores[1])
          ELSE ret.level = PolicyB(score)

\* A score under 20 is high-risk against a passed population, where the
\* absolute thresholds would have said safe.
C5_Witness ==
  /\ pc = "classified"
  /\ allScores # Null
  /\ allScores[1] # <<>>
  /\ accidents # <<>>
  /\ calculateSeverityScore(accidents) < 20
  /\ ret.level = "high-risk"

\* C7: for an empty record list the score is 0, the tier is safe whatever
\* population is or is not passed, the cause ranking is empty and the
\* dominant cause is 'Unknown'.
C7_EmptyInputDefaults ==
  accidents = <<>> =>
    /\ pc = "scored" => ret.score = 0
    /\ pc = "classified" => ret.level = "safe"
    /\ pc = "topCauses" => ret.causes = <<>>
    /\ pc = "dominantCause" => ret.cause = STR_Unknown

\* The empty list classified against a population of zeros.
C7_Witness ==
  /\ pc = "classified"
  /\ accidents = <<>>
  /\ allScores = Some(<<0, 0>>)
  /\ ret.level = "safe"

(***************************************************************************)
(* Claims about two collections (specification PairSpec).                  *)
(***************************************************************************)
\* C4 as claimed: for any two collections the function accepts, the empty
\* one included, score(A) >= score(B) implies tier(A) >= tier(B).
C4_MonotoneForAllCollections ==
  (pc = "compared" /\ ret.scoreA >= ret.scoreB) =>
    TierRank(ret.levelA) >= TierRank(ret.levelB)

\* C4 amended: under one population argument, for a non-empty collection A
\* and any collection B, score(A) >= score(B) implies tier(A) >= tier(B).
C4_MonotoneForNonEmpty ==
  (pc = "compared" /\ accidents # <<>> /\ ret.scoreA >= ret.scoreB) =>
    TierRank(ret.levelA) >= TierRank(ret.levelB)

\* Two non-empty collections, the higher-scoring one high-risk and the other
\* safe.
C4_Witness ==
  /\ pc = "compared"
  /\ accidents # <<>>
  /\ others # <<>>
  /\ ret.scoreA > ret.scoreB
  /\ ret.levelA = "high-risk"
  /\ ret.levelB = "safe"

\* A record counts toward the score when it has fatalities or a label among
\* severe, fatal, moderate.
IsRelevant(accident) ==
  \/ (accident.fatalities # Null /\ accident.fatalities[1] > 0)
  \/ toLowerCase(OrEmpty(accident.severity)) \in {STR_severe, STR_fatal, STR_moderate}

\* The (fatalities, lower-cased severity) pair of a record.
RelevantPair(accident) ==
  <<accident.fatalities, toLowerCase(OrEmpty(accident.severity))>>

\* How many relevant records of a list carry a pair.
PairCount(list, pair) ==
  Cardinality({i \in 1..Len(list) :
                 IsRelevant(list[i]) /\ RelevantPair(list[i]) = pair})

\* The two lists have the same multiset of relevant pairs.
SameRelevant(listA, listB) ==
  \A pair \in {RelevantPair(listA[i]) : i \in 1..Len(listA)}
                \cup {RelevantPair(listB[i]) : i \in 1..Len(listB)} :
    PairCount(listA, pair) = PairCount(listB, pair)

\* C9: two groups with the same multiset of relevant (fatalities, lower-cased
\* severity) pairs that differ in injuries, persons involved or the number of
\* other records have the same score, and (a group being non-empty) the same
\* tier under the same population argument.
C9_ScoreIgnoresInjuriesAndSize ==
  (pc = "compared" /\ SameRelevant(accidents, others)) =>
    /\ ret.scoreA = ret.scoreB
    /\ (accidents # <<>> /\ others # <<>>) => ret.levelA = ret.levelB

\* Two groups of different size and different injuries with the same
\* relevant pairs and a positive score.
C9_Witness ==
  /\ pc = "compared"
  /\ SameRelevant(accidents, others)
  /\ accidents # <<>>
  /\ Len(others) > Len(accidents)
  /\ \E i \in 1..Len(others) : others[i].injuries # Null /\ others[i].injuries[1] > 0
  /\ ret.scoreA > 0
  /\ ret.scoreA = ret.scoreB

(***************************************************************************)
(* Claims about calculatePercentile (specification PercentileSpec).        *)
(***************************************************************************)
\* Every reordering of a list.
Reorderings(scores) ==
  {[i \in 1..Len(scores) |-> scores[f[i]]] : f \in Permutations(1..Len(scores))}

\* C10: the percentile is the element at index p/100 x (n - 1) of the
\* ascending values, interpolated linearly when the index is fractional, and
\* 0 for no values; so percentile([10,20,30,40],25) = 17.5 and
\* percentile([5],50) = 5; it lies between the minimum and the maximum and
\* does not depend on the order of the input.
C10_InterpolatedPercentile ==
  pc = "percentile" =>
    LET scores == allScores[1]
    IN  /\ ret.value100 = InterpolatedPercentile100(scores, percentile)
        /\ scores = <<>> => ret.value100 = 0
        /\ (scores = <<10, 20, 30, 40>> /\ percentile = 25) => ret.value100 = 1750
        /\ (scores = <<5>> /\ percentile = 50) => ret.value100 = 500
        /\ \A i \in 1..Len(scores) :
             (\A j \in 1..Len(scores) : scores[i] <= scores[j])
               => 100 * scores[i] <= ret.value100
        /\ \A i \in 1..Len(scores) :
             (\A j \in 1..Len(scores) : scores[i] >= scores[j])
               => ret.value100 <= 100 * scores[i]
        /\ \A reordered \in Reorderings(scores) :
             calculatePercentile(reordered, percentile) = ret.value100

\* The four values 10, 20, 30, 40 passed out of order: the 25th percentile
\* is 17.5.
C10_Witness ==
  /\ pc = "percentile"
  /\ allScores = Some(<<40, 20, 10, 30>>)
  /\ percentile = 25
  /\ ret.value100 = 1750

(***************************************************************************)
(* Claims about the dashboard (specification DashboardSpec).               *)
(***************************************************************************)
\* C6: the safetyLevel the dashboard stores for each area is the percentile
\* tier of the area's score against the scores of all areas of the fetched
\* records, as calculateAreaScores produces them.
C6_DashboardUsesPolicyA ==
  pc = "rendered" =>
    \A i \in 1..Len(ret.areaAnalytics) :
      LET area == ret.areaAnalytics[i][1]
          score == calculateSeverityScore(AreaGroup(accidents, area))
      IN  ret.areaAnalytics[i][2].safetyLevel
            = PolicyA(score, calculateAreaScores(accidents).allScores)

(***************************************************************************)
(* Claims about the grouping by area (specification GroupSpec).            *)
(***************************************************************************)
\* The records of a list that carry one area, in input order.
RecordsOfArea(list, area) ==
  LET HasArea(accident) == accident.area = area
  IN  SelectSeq(list, HasArea)

RECURSIVE SumOfSizes(_)
SumOfSizes(entries) ==
  IF entries = <<>> THEN 0
  ELSE Len(Head(entries)[2]) + SumOfSizes(Tail(entries))

\* C11: for every record list the grouping by area is a partition: it ends
\* with groups (not with an error), every record's area is the key of
\* exactly one group, that group holds the records of the area in input
\* order, no group is empty, the group sizes add up to the number of
\* records, and the empty list has no groups.
C11_GroupingIsPartition ==
  pc = "grouped" =>
    /\ ~ret.threw
    /\ \A i \in 1..Len(accidents) :
         Cardinality({g \in 1..Len(ret.areaGroups) :
                        ret.areaGroups[g][1] = accidents[i].area}) = 1
    /\ \A g \in 1..Len(ret.areaGroups) :
         /\ ret.areaGroups[g][2] # <<>>
         /\ ret.areaGroups[g][2] = RecordsOfArea(accidents, ret.areaGroups[g][1])
    /\ SumOfSizes(ret.areaGroups) = Len(accidents)
    /\ (accidents = <<>> => ret.areaGroups = <<>>)

\* C12: whenever the reduce ends with groups, their keys are enumerated in
\* the order in which each key first occurs in the input, and the entries
\* of areaScores and allScores follow that order.
C12_FirstSeenKeyOrder ==
  /\ pc = "grouped" /\ ~ret.threw =>
       [g \in 1..Len(ret.areaGroups) |-> ret.areaGroups[g][1]]
         = FirstSeen([i \in 1..Len(accidents) |-> accidents[i].area])
  /\ pc = "areaScores" =>
       [g \in 1..Len(ret.areaScores) |-> ret.areaScores[g][1]]
         = FirstSeen([i \in 1..Len(accidents) |-> accidents[i].area])

(***************************************************************************)
(* Claims about the hour of a record (specifications HourSpec and          *)
(* PredictSpec).                                                           *)
(***************************************************************************)
\* The text before the first ':' of a time that has one.
HourDigits(time) ==
  LET colon == CHOOSE k \in 1..Len(time) :
                 /\ time[k] = ":"
                 /\ \A j \in 1..(k - 1) : time[j] # ":"
  IN  SubSeq(time, 1, colon - 1)

HasColon(time) == \E k \in 1..Len(time) : time[k] = ":"

RECURSIVE DecimalOf(_)
\* The number a string of decimal digits denotes.
DecimalOf(digits) ==
  IF digits = <<>> THEN 0
  ELSE 10 * DecimalOf(SubSeq(digits, 1, Len(digits) - 1))
         + DigitValue(digits[Len(digits)])

\* The marker 'pm' or 'am' occurs in the time, in either case.
Mentions(time, marker) ==
  \E i \in 1..(Len(time) - 1) :
    LowerChar(time[i]) = <<marker[1]>> /\ LowerChar(time[i + 1]) = <<marker[2]>>

\* The time states its hour: it has no ':' at all, or digits and nothing
\* else before the first ':'.
StatesHour(time) ==
  \/ ~HasColon(time)
  \/ /\ HourDigits(time) # <<>>
     /\ \A i \in 1..Len(HourDigits(time)) : IsDigit(HourDigits(time)[i])

\* The hour the rule assigns to a time that states its hour.
StatedHour(time) ==
  IF ~HasColon(time) THEN 0
  ELSE LET digits == DecimalOf(HourDigits(time))
       IN  IF Mentions(time, <<"p","m">>) /\ digits # 12 THEN digits + 12
           ELSE IF Mentions(time, <<"a","m">>) /\ digits = 12 THEN 0
           ELSE digits

RECURSIVE SumOfCounts(_)
SumOfCounts(hourly) ==
  IF hourly = <<>> THEN 0
  ELSE Head(hourly).count + SumOfCounts(Tail(hourly))

\* C13: the hour of a record is the integer before the first ':', plus 12
\* when the time mentions 'pm' (either case) and the integer is not 12,
\* 0 when it mentions 'am' and the integer is 12, unchanged otherwise,
\* and 0 when there is no ':'; a single record is counted in that hour's
\* bucket; '2:30 PM' is 14, '12:00 AM' is 0, '12:00 PM' is 12, '09:00' is 9.
C13_HourExtraction ==
  pc = "hourly" =>
    /\ \A i \in 1..Len(accidents) :
         LET time == accidents[i].time
         IN  /\ StatesHour(time) => HistogramHour(time) = Num(StatedHour(time))
             /\ (StatesHour(time) /\ StatedHour(time) \in 0..23)
                  => ret.hourly[StatedHour(time) + 1].count >= 1
             /\ (StatesHour(time) /\ StatedHour(time) \in 0..23
                   /\ Len(accidents) = 1)
                  => \A h \in 0..23 :
                       ret.hourly[h + 1].count
                         = IF h = StatedHour(time) THEN 1 ELSE 0
             /\ time = TIME_2_30_PM => ret.hourly[14 + 1].count >= 1
             /\ time = TIME_12_00_AM => ret.hourly[0 + 1].count >= 1
             /\ time = TIME_12_00_PM => ret.hourly[12 + 1].count >= 1
             /\ time = TIME_09_00 => ret.hourly[9 + 1].count >= 1

\* An afternoon time, midnight and noon in one list, each in its bucket.
C13_Witness ==
  /\ pc = "hourly"
  /\ Len(accidents) = 3
  /\ accidents[1].time = TIME_2_30_PM
  /\ accidents[2].time = TIME_12_00_AM
  /\ accidents[3].time = TIME_12_00_PM
  /\ ret.hourly[15].count = 1
  /\ ret.hourly[1].count = 1
  /\ ret.hourly[13].count = 1

\* C14: the histogram has exactly 24 entries, for the hours 0..23 in
\* ascending order; the count of an hour is the number of records whose
\* computed hour it is, so a record is counted at most once and a record
\* whose hour is outside 0..23 is counted nowhere; the counts add up to
\* the number of records with an hour in 0..23, at most the list length.
C14_HistogramShape ==
  pc = "hourly" =>
    LET InDay == {i \in 1..Len(accidents) :
                    \E h \in 0..23 : HistogramHour(accidents[i].time) = Num(h)}
    IN  /\ Len(ret.hourly) = 24
        /\ \A h \in 0..23 :
             /\ ret.hourly[h + 1].hour = h
             /\ ret.hourly[h + 1].count
                  = Cardinality({i \in 1..Len(accidents) :
                                   HistogramHour(accidents[i].time) = Num(h)})
        /\ SumOfCounts(ret.hourly) = Cardinality(InDay)
        /\ SumOfCounts(ret.hourly) <= Len(accidents)

\* A record at hour 25 next to one at hour 9: one count in all.
C14_Witness ==
  /\ pc = "hourly"
  /\ Len(accidents) = 2
  /\ HistogramHour(accidents[1].time) = Num(25)
  /\ accidents[2].time = TIME_09_00
  /\ SumOfCounts(ret.hourly) = 1
  /\ ret.hourly[10].count = 1
  /\ ret.hourly[24].count = 0

\* The time yields no hour number: no ':' in it, or no digit before the
\* first ':'.
YieldsNoHour(time) ==
  \/ ~HasColon(time)
  \/ \A i \in 1..Len(HourDigits(time)) : ~IsDigit(HourDigits(time)[i])

\* C15: every record whose time yields no hour number is counted in
\* bucket 0.
C15_UnparseableCountsAsHourZero ==
  pc = "hourly" =>
    ret.hourly[1].count
      >= Cardinality({i \in 1..Len(accidents) : YieldsNoHour(accidents[i].time)})

\* C16: the prediction for hour h is the tier of the records whose
\* computed hour is h, in input order, under the population that was
\* passed; with no such record it is 'safe'.
C16_PredictionIsTierOfHour ==
  pc = "predicted" =>
    LET AtHour(acc) == HistogramHour(acc.time) = Num(hour)
        atHour == SelectSeq(accidents, AtHour)
    IN  /\ ret.level = calculateSafetyLevelFromAccidents(atHour, allScores)
        /\ atHour = <<>> => ret.level = "safe"
        /\ (atHour # <<>> /\ allScores # Null /\ allScores[1] # <<>>)
             => ret.level = PolicyA(calculateSeverityScore(atHour), allScores[1])
        /\ (atHour # <<>> /\ (allScores = Null \/ allScores[1] = <<>>))
             => ret.level = PolicyB(calculateSeverityScore(atHour))

\* Hour 14 with one record at 2:30 PM and one elsewhere: the record of
\* score 0 is high-risk against the population [0].
C16_Witness ==
  /\ pc = "predicted"
  /\ hour = 14
  /\ allScores = Some(<<0>>)
  /\ Len(accidents) = 2
  /\ accidents[1].time = TIME_09_00
  /\ accidents[2] = AccidentAt(TIME_2_30_PM, Some(0), Some(STR_Minor))
  /\ ret.level = "high-risk"

(***************************************************************************)
(* Claims about the cause ranking (specification CauseSpec).               *)
(***************************************************************************)
\* The cause a record is tallied under: its text, 'Unknown' when the
\* column is null or empty.
TalliedCause(accident) ==
  IF accident.causePrimary \in {Null, Some(<<>>)} THEN STR_Unknown
  ELSE accident.causePrimary[1]

Tally(list, cause) ==
  Cardinality({i \in 1..Len(list) : TalliedCause(list[i]) = cause})

\* Index of the first record tallied under a cause that occurs.
FirstEncounter(list, cause) ==
  CHOOSE i \in 1..Len(list) :
    /\ TalliedCause(list[i]) = cause
    /\ \A j \in 1..(i - 1) : TalliedCause(list[j]) # cause

\* C17: the ranking holds at most five [cause, count] pairs; each count is
\* the exact tally of its cause (case-sensitive, 'Unknown' for a null or
\* empty cause); the pairs are in descending count order, equal counts in
\* the order of first encounter; no omitted cause has a larger tally than
\* a returned one; A,B,A,C,B,A gives (A,3),(B,2),(C,1); and the dominant
\* cause is the cause of the first pair ('Unknown' for no records).
C17_TopCausesRanking ==
  LET causes == {TalliedCause(accidents[i]) : i \in 1..Len(accidents)}
      Before(c1, c2) ==
        \/ Tally(accidents, c1) > Tally(accidents, c2)
        \/ /\ Tally(accidents, c1) = Tally(accidents, c2)
           /\ FirstEncounter(accidents, c1) < FirstEncounter(accidents, c2)
  IN  /\ pc = "topCauses" =>
        /\ Len(ret.causes) = IF Cardinality(causes) < 5 THEN Cardinality(causes) ELSE 5
        /\ \A j \in 1..Len(ret.causes) :
             /\ ret.causes[j].cause \in causes
             /\ ret.causes[j].count = JSNumber(Tally(accidents, ret.causes[j].cause))
             /\ \A k \in (j + 1)..Len(ret.causes) :
                  Before(ret.causes[j].cause, ret.causes[k].cause)
             /\ \A c \in causes :
                  (\A k \in 1..Len(ret.causes) : ret.causes[k].cause # c)
                    => /\ ret.causes[j].count.type = "number"
                       /\ ret.causes[j].count.value >= Tally(accidents, c)
        /\ [i \in 1..Len(accidents) |-> accidents[i].causePrimary]
             = <<Some(<<"A">>), Some(<<"B">>), Some(<<"A">>),
                 Some(<<"C">>), Some(<<"B">>), Some(<<"A">>)>>
             => ret.causes = <<[cause |-> <<"A">>, count |-> JSNumber(3)],
                               [cause |-> <<"B">>, count |-> JSNumber(2)],
                               [cause |-> <<"C">>, count |-> JSNumber(1)]>>
      /\ pc = "dominantCause" =>
        IF accidents = <<>> THEN ret.cause = STR_Unknown
        ELSE /\ ret.cause \in causes
             /\ \A c \in causes \ {ret.cause} : Before(ret.cause, c)

(***************************************************************************)
(* Claims about the recommendation lookup (specification SuggestSpec).     *)
(***************************************************************************)
\* The categories in priority order, each with its keywords.
Categories ==
  <<[name |-> "weather", keywords |-> {<<"w","e","a","t","h","e","r">>, <<"r","a","i","n">>, <<"f","o","g">>}],
    [name |-> "speed", keywords |-> {<<"s","p","e","e","d">>, <<"o","v","e","r","s","p","e","e","d","i","n","g">>}],
    [name |-> "attention",
     keywords |-> {<<"i","n","a","t","t","e","n","t","i","o","n">>, <<"d","i","s","t","r","a","c","t">>, <<"r","e","d"," ","l","i","g","h","t">>, <<"s","i","g","n","a","l">>}],
    [name |-> "alcohol", keywords |-> {<<"a","l","c","o","h","o","l">>, <<"d","r","u","n","k">>}],
    [name |-> "pedestrian", keywords |-> {<<"p","e","d","e","s","t","r","i","a","n">>, <<"j","a","y","w","a","l","k","i","n","g">>}],
    [name |-> "overtaking", keywords |-> {<<"o","v","e","r","t","a","k","i","n","g">>, <<"r","e","c","k","l","e","s","s">>}]>>

\* The keyword occurs in the text, letters compared without case.
OccursIn(keyword, text) ==
  \E start \in 0..(Len(text) - Len(keyword)) :
    \A i \in 1..Len(keyword) : LowerChar(text[start + i]) = <<keyword[i]>>

CategoryMatches(k, text) ==
  \E keyword \in Categories[k].keywords : OccursIn(keyword, text)

\* The name of the first category that matches, "default" when none does.
FirstCategory(text) ==
  IF \A k \in 1..Len(Categories) : ~CategoryMatches(k, text) THEN "default"
  ELSE Categories[CHOOSE k \in 1..Len(Categories) :
                    /\ CategoryMatches(k, text)
                    /\ \A j \in 1..(k - 1) : ~CategoryMatches(j, text)].name

\* C18: each lookup returns the list of the first category, in the order
\* weather, speed, attention, alcohol, pedestrian, overtaking, one of whose
\* keywords occurs in the cause without regard to case, and the default
\* list when none occurs; a cause with a weather and a speed keyword gets
\* the weather lists; 'Unrelated Mystery Cause' gets the default lists;
\* every returned list is non-empty.
C18_FirstMatchingCategoryWins ==
  /\ pc = "civilian" =>
       /\ ret.suggestions = CivilianAdvice[FirstCategory(dominantCause)]
       /\ (CategoryMatches(1, dominantCause) /\ CategoryMatches(2, dominantCause))
            => ret.suggestions = CivilianAdvice.weather
       /\ dominantCause = STR_Unrelated_Mystery_Cause
            => ret.suggestions = CivilianAdvice.default
       /\ Len(ret.suggestions) > 0
  /\ pc = "government" =>
       /\ ret.suggestions = GovernmentAdvice[FirstCategory(dominantCause)]
       /\ (CategoryMatches(1, dominantCause) /\ CategoryMatches(2, dominantCause))
            => ret.suggestions = GovernmentAdvice.weather
       /\ dominantCause = STR_Unrelated_Mystery_Cause
            => ret.suggestions = GovernmentAdvice.default
       /\ Len(ret.suggestions) > 0

\* 'Overspeeding Rain' names speed first and still gets the weather list.
C18_Witness ==
  /\ pc = "civilian"
  /\ dominantCause = <<"O","v","e","r","s","p","e","e","d","i","n","g"," ","R","a","i","n">>
  /\ ret.suggestions = CivilianAdvice.weather
  /\ ret.suggestions # CivilianAdvice.speed

(***************************************************************************)
(* Claims about the summary figures (specification ResponseSpec).          *)
(***************************************************************************)
\* The records that have an ambulance time.
Answered(list) ==
  LET HasTime(acc) == acc.ambulanceTimeMin # Null
  IN  SelectSeq(list, HasTime)

RECURSIVE SumOfTimes(_)
SumOfTimes(list) ==
  IF list = <<>> THEN 0
  ELSE Head(list).ambulanceTimeMin[1] + SumOfTimes(Tail(list))

\* C19: the average response time shown by either component is the sum
\* of the ambulance times that are present divided by the number of
\* records that have one (rounded to the nearest minute as displayed);
\* records without one do not count in the divisor.
C19_AverageOverPresentValues ==
  (pc \in {"statistics", "panel"} /\ Answered(accidents) # <<>>) =>
    LET present == Answered(accidents)
    IN  ret.avgResponseTime
          = Num((2 * SumOfTimes(present) + Len(present)) \div (2 * Len(present)))

(***************************************************************************)
(* Claims about the bulk import (specification BulkSpec).                  *)
(***************************************************************************)
\* The indices the response reports as rejected.
ReportedIndices(response) ==
  IF response.status = 201 /\ response.errors # Null
    THEN {response.errors[1][k].index : k \in 1..Len(response.errors[1])}
  ELSE IF response.status = 400 /\ "errors" \in DOMAIN response
    THEN {response.errors[k].index : k \in 1..Len(response.errors)}
  ELSE {}

\* Input i of a call breaks a record constraint: a required column is
\* missing, or its accidentId is already in the table or was given by an
\* earlier input of the call.
ViolatesConstraint(rows, inputs, i) ==
  \/ MissingColumns(inputs[i]) # {}
  \/ \E r \in 1..Len(rows) : rows[r].accidentId = inputs[i].accidentId
  \/ \E j \in 1..(i - 1) :
       /\ MissingColumns(inputs[j]) = {}
       /\ inputs[j].accidentId = inputs[i].accidentId

\* C20: in every call of the bulk endpoint with an array, each input that
\* breaks a record constraint (uniqueness of accidentId included) is
\* reported under its own index, every other input becomes a row, and
\* the rows added plus the rejections reported equal the inputs.
C20_RejectsIndividually ==
  [][accidents' # Null =>
       LET inputs == accidents'[1]
       IN  /\ \A i \in 1..Len(inputs) :
                IF ViolatesConstraint(store, inputs, i)
                  THEN (i - 1) \in ReportedIndices(ret')
                  ELSE \E r \in (Len(store) + 1)..Len(store') :
                         store'[r] = inputs[i]
           /\ (Len(store') - Len(store)) + Cardinality(ReportedIndices(ret'))
                = Len(inputs)]_vars


(***************************************************************************)
(* Claims about the record store (specification StoreSpec).                *)
(***************************************************************************)
\* C21: whatever requests and import runs came before, every stored record
\* has fatalities and injuries that are null or at least 0, and an area
\* that is not empty.
C21_StoredRecordsAreValid ==
  \A r \in 1..Len(store) :
    /\ store[r].fatalities = Null \/ store[r].fatalities[1] >= 0
    /\ store[r].injuries = Null \/ store[r].injuries[1] >= 0
    /\ store[r].area # Null /\ store[r].area # Some(<<>>)

\* C22: after a run of the import script every imported record lies inside
\* the rectangle around Delhi and carries an area, 'Unknown' when the file
\* gave none.
C22_ImportStaysInsideDelhi ==
  pc = "imported" =>
    \A k \in 1..Len(ret.imported) :
      /\ isWithinDelhiBounds(ret.imported[k].latitude[1],
                             ret.imported[k].longitude[1])
      /\ ret.imported[k].area # Some(<<>>)

\* C23: a GET of /api/accidents/date-range with both parameters is answered
\* with the records dated between them, bounds included, and with status
\* 400 when a parameter is absent.
C23_DateRangeIsAnswered ==
  (pc = "answered" /\ ret.request.path = GetRoutes[4]) =>
    LET query == ret.request.query
        InRange(row) == /\ TextLeq(query.startDate[1], row.date[1])
                        /\ TextLeq(row.date[1], query.endDate[1])
    IN  IF query.startDate = Null \/ query.endDate = Null
          THEN ret.response.status = 400
        ELSE (query.startDate # Some(<<>>) /\ query.endDate # Some(<<>>)) =>
               /\ ret.response.status = 200
               /\ ret.response.body = SelectSeq(store, InRange)


(***************************************************************************)
(* Claims about the classification of the areas under their own            *)
(* population (specification DashboardSpec).                               *)
(***************************************************************************)
\* The level of the area of entry k of calculateAreaScores' result, under
\* the percentile policy with that result's allScores as the population.
LevelAmongAreas(k) ==
  calculateSafetyLevelFromAccidents(AreaGroup(accidents, ret.areaScores[k][1]),
                                    Some(ret.allScores))

\* The entries whose score no other entry exceeds.
MaxScoreEntries ==
  {k \in 1..Len(ret.areaScores) :
     \A j \in 1..Len(ret.areaScores) :
       ret.areaScores[j][2] <= ret.areaScores[k][2]}

\* C24: when calculateAreaScores has returned and each area is classified
\* with the returned scores as the population, an area of maximum score is
\* 'high-risk', a non-empty record set has a 'high-risk' area, and when all
\* the area scores are equal every area is 'high-risk'.
C24_MaxAreaIsHighRisk ==
  (pc = "areaScores" /\ ~ret.threw) =>
    /\ \A k \in MaxScoreEntries : LevelAmongAreas(k) = "high-risk"
    /\ accidents # <<>> =>
         \E k \in 1..Len(ret.areaScores) : LevelAmongAreas(k) = "high-risk"
    /\ MaxScoreEntries = 1..Len(ret.areaScores) =>
         \A k \in 1..Len(ret.areaScores) : LevelAmongAreas(k) = "high-risk"

\* Three areas with three different scores: the highest is 'high-risk' and
\* the lowest is 'safe'.
C24_Witness ==
  /\ pc = "areaScores"
  /\ ~ret.threw
  /\ Len(ret.areaScores) = 3
  /\ Cardinality(MaxScoreEntries) = 1
  /\ \E k \in 1..3 : LevelAmongAreas(k) = "safe"
  /\ \E k \in MaxScoreEntries : LevelAmongAreas(k) = "high-risk"

(***************************************************************************)
(* Claims about the batches of bulkCreateAccidents (specification          *)
(* BatchSpec).                                                             *)
(***************************************************************************)
\* The call of bulkCreateAccidents a step belongs to: the step that begins
\* it or the step that takes it to its next batch.
IsBulkStep == (pc = "ready" /\ pc' # "ready") \/ (call # Null /\ call' # call)

\* The number of records of the body the call has inserted before a step.
InsertedBefore == IF call = Null THEN 0 ELSE call[1].state.i

\* The batch a step of the call inserts: the next 100 records of the body,
\* or those that are left.
NextBatch ==
  SubSeq(accidents[1], InsertedBefore + 1,
         IF InsertedBefore + 100 < Len(accidents[1]) THEN InsertedBefore + 100
         ELSE Len(accidents[1]))

\* The batch repeats an accidentId of the table or one of its own.
BatchFails ==
  \E j \in 1..Len(NextBatch) :
    \/ \E r \in 1..Len(store) : store[r].accidentId = NextBatch[j].accidentId
    \/ \E k \in 1..(j - 1) : NextBatch[k].accidentId = NextBatch[j].accidentId

\* C25: the records are inserted in consecutive batches of at most 100 in
\* input order, one insert each, and no transaction encloses them, whatever
\* other requests do between two inserts.  No step removes or changes a row
\* of the table.  A step of the call appends its batch and nothing else, or
\* its insert fails: then the table stays as it is with every earlier batch
\* in it, the call fails and the route answers 500.  After the last batch
\* the call returns one record per input in input order (the route answers
\* 201 with their number), and on the empty input it returns the empty list
\* and the table is as it was.
C25_BatchesWithoutTransaction ==
  [][/\ Len(store') >= Len(store)
     /\ SubSeq(store', 1, Len(store)) = store
     /\ (IsBulkStep /\ accidents[1] = <<>>) =>
          /\ store' = store
          /\ call' = Null
          /\ pc' = "bulkCreated" => (~ret'.threw /\ ret'.results = <<>>)
     /\ (IsBulkStep /\ accidents[1] # <<>>) =>
          IF BatchFails
            THEN /\ store' = store
                 /\ \A j \in 1..InsertedBefore :
                      \E r \in 1..Len(store') : store'[r] = accidents[1][j]
                 /\ call' = Null
                 /\ pc' = "bulkCreated" => ret'.threw
                 /\ pc' = "bulkPosted" => ret'.status = 500
          ELSE /\ store' = store \o NextBatch
               /\ IF InsertedBefore + 100 < Len(accidents[1])
                    THEN /\ call' # Null
                         /\ call'[1].state.i = InsertedBefore + 100
                         /\ pc' = "inserting"
                    ELSE /\ call' = Null
                         /\ pc' = "bulkCreated" =>
                              (~ret'.threw /\ ret'.results = accidents[1])
                         /\ pc' = "bulkPosted" =>
                              (ret'.status = 201
                               /\ ret'.imported = Len(accidents[1]))]_vars

\* The second batch of a body of 101 records failed and the 100 records of
\* the first batch are in the table.
C25_Witness ==
  /\ pc = "bulkPosted"
  /\ Len(accidents[1]) = 101
  /\ ret.status = 500
  /\ Len(store) = Len(SeedRows) + 100
  /\ store[Len(store)] = accidents[1][100]

(***************************************************************************)
(* Claims about the view state of the Dashboard (specification ViewSpec).  *)
(***************************************************************************)
\* C26: from 'stats' with no selection and after any sequence of view
\* switches, marker clicks, panel closes and area selections: once the
\* viewMode effect has run, viewMode 'stats' implies that no accident is
\* selected; the panel is shown only in 'map' mode with an accident
\* selected; selecting an area that has accidents selects the first of
\* them and switches to 'map', and selecting an area that has none changes
\* nothing of the view.
C26_ViewState ==
  /\ []((~view.effectPending /\ view.viewMode = "stats") =>
          view.selectedAccident = Null)
  /\ [](PanelShown => (view.viewMode = "map" /\ view.selectedAccident # Null))
  /\ [][pc' = "areaSelected" =>
          IF ret'.areaAccidents # <<>>
            THEN /\ view'.selectedAccident = Some(ret'.areaAccidents[1])
                 /\ view'.viewMode = "map"
            ELSE /\ view'.viewMode = view.viewMode
                 /\ view'.selectedAccident = view.selectedAccident
                 /\ view'.mobileMenuOpen = view.mobileMenuOpen]_vars

\* An area of two different records was selected from the statistics view:
\* its first record is selected, the mode is 'map' and the panel is shown.
C26_Witness ==
  /\ pc = "areaSelected"
  /\ Len(ret.areaAccidents) = 2
  /\ ret.areaAccidents[1] # ret.areaAccidents[2]
  /\ view.selectedAccident = Some(ret.areaAccidents[1])
  /\ view.viewMode = "map"
  /\ view.effectPending
  /\ PanelShown

(***************************************************************************)
(* Claims about the hours of LocationDetailPanel (specification            *)
(* ResponseSpec).                                                          *)
(***************************************************************************)
\* C27: in the rendered panel the hourlyData given to the chart is what
\* getHourlyDistribution returned, the 24 pairs in ascending hour order,
\* and peakHours holds at most 3 hours, each with a count above 0, in
\* descending count order with equal counts in ascending hour order.
C27_PeakHoursLeaveHistogram ==
  pc = "panel" =>
    /\ ret.hourlyData = getHourlyDistribution(accidents)
    /\ \A h \in 1..24 : ret.hourlyData[h].hour = h - 1
    /\ Len(ret.peakHours) <= 3
    /\ \A k \in 1..Len(ret.peakHours) : ret.peakHours[k].count > 0
    /\ \A j, k \in 1..Len(ret.peakHours) :
         j < k =>
           \/ ret.peakHours[j].count > ret.peakHours[k].count
           \/ /\ ret.peakHours[j].count = ret.peakHours[k].count
              /\ ret.peakHours[j].hour < ret.peakHours[k].hour

(***************************************************************************)
(* Claims about the two copies of the hour extraction (specification       *)
(* HourSpec).                                                              *)
(***************************************************************************)
\* The hour that the filter of predictSafetyForHour computes for each time
\* text of the model, as pairs of text and hour.
FilterHours == {<<time, FilterHour(time)>> : time \in TimeStrings}

\* The number of records that the filter selects for the target hour h.
SelectedForHour(h) ==
  Cardinality({i \in 1..Len(accidents) :
                 <<accidents[i].time, Num(h)>> \in FilterHours})

\* The records that getHourlyDistribution counts in no bucket.
SkippedByHistogram ==
  {i \in 1..Len(accidents) :
     LET computed == HistogramHour(accidents[i].time)
     IN  computed = NaN \/ computed[1] < 0 \/ computed[1] > 23}

\* C28: for every hour h of 0..23 the count of bucket h of
\* getHourlyDistribution is the number of records that predictSafetyForHour
\* selects for h, and a record the histogram skips is selected for no hour
\* of 0..23.
C28_HourCopiesAgree ==
  pc = "hourly" =>
    /\ \A i \in 1..Len(accidents) : accidents[i].time \in TimeStrings
    /\ \A h \in 0..23 : ret.hourly[h + 1].count = SelectedForHour(h)
    /\ \A i \in SkippedByHistogram : \A h \in 0..23 :
         <<accidents[i].time, Num(h)>> \notin FilterHours

\* A list with a record at 12:00 AM, one at 2:30 PM and one the histogram
\* skips: buckets 0 and 14 hold one record each.
C28_Witness ==
  /\ pc = "hourly"
  /\ Len(accidents) = 3
  /\ \E i \in 1..3 : accidents[i].time = TIME_12_00_AM
  /\ \E i \in 1..3 : accidents[i].time = TIME_2_30_PM
  /\ SkippedByHistogram # {}
  /\ ret.hourly[1].count = 1
  /\ ret.hourly[15].count = 1
  /\ SelectedForHour(0) = 1
  /\ SelectedForHour(14) = 1

(***************************************************************************)
(* Claims about the two recommendation lookups together (specification     *)
(* SuggestSpec).                                                           *)
(***************************************************************************)
\* The names of the branches of a lookup.
BranchNames ==
  {"weather", "speed", "attention", "alcohol", "pedestrian", "overtaking",
   "default"}

\* C29: for every cause the two lookups select the same category, or both
\* the default: the list one returns is the list of a branch exactly when
\* the list the other returns is the list of that branch.
C29_LookupsSelectSameCategory ==
  /\ pc = "civilian" =>
       \A name \in BranchNames :
         ret.suggestions = CivilianAdvice[name]
           <=> getGovernmentSuggestions(dominantCause) = GovernmentAdvice[name]
  /\ pc = "government" =>
       \A name \in BranchNames :
         ret.suggestions = GovernmentAdvice[name]
           <=> getCivilianSuggestions(dominantCause) = CivilianAdvice[name]

\* A cause that names a signal and drunk driving: both lookups are in the
\* attention branch, which comes before the alcohol branch.
C29_Witness ==
  /\ pc = "government"
  /\ OccursIn(<<"s","i","g","n","a","l">>, dominantCause)
  /\ CategoryMatches(4, dominantCause)
  /\ ret.suggestions = GovernmentAdvice.attention
  /\ getCivilianSuggestions(dominantCause) = CivilianAdvice.attention

(***************************************************************************)
(* Claims about the score of a whole and of its parts (specification       *)
(* GroupSpec).                                                             *)
(***************************************************************************)
RECURSIVE SumOfScores(_)
SumOfScores(scores) ==
  IF scores = <<>> THEN 0 ELSE Head(scores) + SumOfScores(Tail(scores))

\* C30: the score of a list is the sum of the scores of any two parts it
\* is cut into and every reordering of the list has the same score;
\* calculateAreaScores yields one score for each distinct area, allScores
\* holds the values of areaScores, and the sum of allScores is the score of
\* the whole record set.  The call has thrown or returned when its reduce
\* has thrown or its scores are there.
C30_ScoreIsAdditive ==
  (pc = "areaScores" \/ (pc = "grouped" /\ ret.threw)) =>
    /\ \A k \in 0..Len(accidents) :
         calculateSeverityScore(SubSeq(accidents, 1, k))
           + calculateSeverityScore(SubSeq(accidents, k + 1, Len(accidents)))
           = calculateSeverityScore(accidents)
    /\ \A reordered \in Reorderings(accidents) :
         calculateSeverityScore(reordered) = calculateSeverityScore(accidents)
    /\ ~ret.threw
    /\ \A i \in 1..Len(accidents) :
         Cardinality({k \in 1..Len(ret.areaScores) :
                        ret.areaScores[k][1] = accidents[i].area}) = 1
    /\ Len(ret.areaScores)
         = Cardinality({accidents[i].area : i \in 1..Len(accidents)})
    /\ ret.allScores = [k \in 1..Len(ret.areaScores) |-> ret.areaScores[k][2]]
    /\ SumOfScores(ret.allScores) = calculateSeverityScore(accidents)
====
